---- MODULE Spec2Model ----
(***************************************************************************)
(* Row-to-columnar decoding of the spiceai data layer.                     *)
(*                                                                         *)
(*   crates/arrow_sql_gen/src/postgres.rs                                  *)
(*       BigDecimalFromSql::from_sql, to_decimal_128, rows_to_arrow,       *)
(*       columns_to_schema, map_column_type_to_data_type                   *)
(*   crates/db_connection_pool/src/dbconnection/snowflakeconn.rs           *)
(*       cast_sf_timestamp_ntz_to_arrow_timestamp, snowflake_schema_cast,  *)
(*       SnowflakeConnection::query_arrow                                  *)
(*   crates/data_components/src/sqlite.rs                                  *)
(*       SqliteTableFactory::create, Sqlite::table_exists, create_table,   *)
(*       create_index, insert_batch, delete_from                           *)
(*   crates/db_connection_pool/src/odbcpool.rs                             *)
(*       ENV, ODBCPool::new, connect, join_push_down                       *)
(*   crates/runtime/src/embeddings/vector_search.rs                        *)
(*       VectorSearch::search, embed, calculate_embeddings_per_table,      *)
(*       find_relevant_embedding_models, get_primary_keys_with_overrides   *)
(*                                                                         *)
(* Wide integers (BigInt, i128, i64) are sign-magnitude decimal digit      *)
(* vectors, the representation from_sql itself builds (u8_digits), so that *)
(* the 64 and 128 bit limits are compared exactly.                         *)
(***************************************************************************)
EXTENDS Integers, Sequences, FiniteSets, TLC

VARIABLES
    \* BigDecimalFromSql::from_sql taken alone
    num_pc,        \* "input" | "encoded" | "decoded"
    num_d,         \* the decimal handed to the encoder, or NoDecimal
    num_raw,       \* &[u8] given to from_sql
    num_out,       \* what from_sql returned
    \* rows_to_arrow / columns_to_schema
    pc,            \* "start" | "cells" | "finish" | "done" | "idle"
    op,            \* "rows_to_arrow" | "columns_to_schema"
    cols,          \* the Postgres type of every column
    nrows,         \* rows.len()
    rows,          \* the cells read so far, row by row
    r, i,          \* position of the two nested loops (1-based)
    arrow_fields,  \* Vec<Option<Field>>
    builders,      \* Vec<Option<Box<dyn ArrayBuilder>>>
    outcome,       \* result of the call
    \* cast_sf_timestamp_ntz_to_arrow_timestamp
    sf_pc,         \* "check" | "loop" | "done" | "idle"
    sf_column,     \* the column handed to the cast
    sf_idx,        \* loop index (0-based, as in the source)
    sf_builder,    \* TimestampMillisecondBuilder
    sf_result,     \* result of the cast
    \* snowflake_schema_cast
    sc_pc,         \* "direct" | "loop" | "cast" | "done" | "idle"
    sc_fields,     \* record_batch.schema().fields()
    sc_idx,        \* loop index (0-based, as in the source)
    sc_out,        \* [fields, columns], the two vectors being filled
    sc_result,     \* result of the schema cast
    \* SnowflakeConnection::query_arrow and the stream it returns
    qa_pc,         \* "exec" | "peek" | "returned" | "ended" | "failed" | "idle"
    qa_server,     \* the items the server emits for the query, in order
    qa_pos,        \* how many of them the upstream stream has yielded
    qa_once,       \* run_once: the peeked batch until it is yielded
    qa_schema,     \* schema of the RecordBatchStreamAdapter
    qa_delivered,  \* the items the returned stream has yielded
    qa_result,     \* result of query_arrow
    \* SqliteTableFactory::create on one database file
    db,            \* the committed catalog: [tables, indexes]
    f_pc,          \* the step of create, "done" or "idle"
    f_cmd,         \* the command: [name, indexes, on_conflict]
    f_calls,       \* calls of create so far
    f_indexes,     \* the parsed indexes not yet created
    f_txn,         \* the catalog as the open transaction sees it, or none
    f_io,          \* pool, connection and statements of the current call
    f_probe,       \* the last table_exists call
    f_result,      \* result of the current call
    f_strong,      \* the holders of the Arc<Sqlite> of the current call
    f_worker,      \* the connection's thread: "idle" | "closure" | "return" | "send" | "exit"
    f_value,       \* what the closure returned, until it is sent
    f_chan,        \* the oneshot channel of conn.call: none, or the value sent
    \* Sqlite::insert_batch, delete_from, delete_all_table_data in a transaction
    t_rows,        \* the rows of the table as the transaction sees them
    t_committed,   \* the rows of the table as last committed
    t_on_conflict, \* the on_conflict of the table writer
    t_conn,        \* the connection's counters: [changes, total_changes]
    t_ops,         \* statements executed so far
    t_last,        \* the last call: its input, the rows before it, its result
    \* odbcpool.rs: the lazy static ENV, ODBCPool::new and connect on threads
    o_faults,      \* which calls of the driver manager fail in this process
    o_once,        \* the Once of ENV: "incomplete" | "running" | "complete" | "poisoned"
    o_env,         \* what the initializer of ENV has done
    o_pc,          \* where every thread is
    o_pools,       \* the ODBCPools constructed
    o_params,      \* the odbc_connection_string each thread's component is configured with
    o_join,        \* the values join_push_down has returned
    \* VectorSearch::embed on tasks, the store's RwLock and each model's RwLock
    e_pc,          \* where every task is in embed, "idle" or "done"
    e_call,        \* the embedding_model every task has named
    e_result,      \* the result of every task's last embed
    e_store,       \* the store's lock: [readers, writer, queue]
    e_models,      \* every model's lock: [holder, queue]
    \* VectorSearch::search, one call
    vs_pc,         \* the step of search, "idle" or "done"
    vs_df,         \* the tables registered with DataFusion
    vs_explicit,   \* explicit_primary_keys
    vs_tables,     \* the tables argument
    vs_to_run,     \* embeddings_to_run
    vs_todo,       \* the models the loop over embeddings_to_run has still to visit
    vs_embedded,   \* embedded_inputs
    vs_embeds,     \* calls of embed so far, by model
    vs_per_table,  \* per_table_embeddings
    vs_pks,        \* table_primary_keys
    vs_sql,        \* the SELECTs issued so far
    vs_result      \* result of the call

vars == <<num_pc, num_d, num_raw, num_out,
          pc, op, cols, nrows, rows, r, i, arrow_fields, builders, outcome,
          sf_pc, sf_column, sf_idx, sf_builder, sf_result,
          sc_pc, sc_fields, sc_idx, sc_out, sc_result,
          qa_pc, qa_server, qa_pos, qa_once, qa_schema, qa_delivered, qa_result,
          db, f_pc, f_cmd, f_calls, f_indexes, f_txn, f_io, f_probe, f_result,
          f_strong, f_worker, f_value, f_chan,
          t_rows, t_committed, t_on_conflict, t_conn, t_ops, t_last,
          o_faults, o_once, o_env, o_pc, o_pools, o_params, o_join,
          e_pc, e_call, e_result, e_store, e_models,
          vs_pc, vs_df, vs_explicit, vs_tables, vs_to_run, vs_todo, vs_embedded,
          vs_embeds, vs_per_table, vs_pks, vs_sql, vs_result>>

numVars == <<num_pc, num_d, num_raw, num_out>>
rowVars == <<pc, op, cols, nrows, rows, r, i, arrow_fields, builders, outcome>>
castVars == <<sf_pc, sf_column, sf_idx, sf_builder, sf_result>>
scVars == <<sc_pc, sc_fields, sc_idx, sc_out, sc_result>>
sfVars == <<castVars, scVars>>
qaVars == <<qa_pc, qa_server, qa_pos, qa_once, qa_schema, qa_delivered, qa_result>>
decodeVars == <<numVars, rowVars, sfVars>>
arcVars == <<f_strong, f_worker, f_value, f_chan>>
factoryVars == <<db, f_pc, f_cmd, f_calls, f_indexes, f_txn, f_io, f_probe, f_result,
                 arcVars>>
tableVars == <<t_rows, t_committed, t_on_conflict, t_conn, t_ops, t_last>>
odbcVars == <<o_faults, o_once, o_env, o_pc, o_pools, o_params, o_join>>
embedVars == <<e_pc, e_call, e_result, e_store, e_models>>
searchVars == <<vs_pc, vs_df, vs_explicit, vs_tables, vs_to_run, vs_todo, vs_embedded,
                vs_embeds, vs_per_table, vs_pks, vs_sql, vs_result>>
vectorVars == <<embedVars, searchVars>>
restVars == <<qaVars, factoryVars, tableVars, odbcVars, vectorVars>>
outsideQuery == <<decodeVars, factoryVars, tableVars, odbcVars, vectorVars>>
outsideFactory == <<decodeVars, qaVars, tableVars, odbcVars, vectorVars>>
outsideTable == <<decodeVars, qaVars, factoryVars, odbcVars, vectorVars>>
outsideOdbc == <<decodeVars, qaVars, factoryVars, tableVars, vectorVars>>
outsideVector == <<decodeVars, qaVars, factoryVars, tableVars, odbcVars>>

\* The machines a specification does not run stay at rest
SchemaCastIdle ==
    /\ sc_pc = "idle" /\ sc_fields = <<>> /\ sc_idx = 0
    /\ sc_out = [fields |-> <<>>, columns |-> <<>>]
    /\ sc_result = [kind |-> "None"]

QueryIdle ==
    /\ qa_pc = "idle" /\ qa_server = <<>> /\ qa_pos = 0
    /\ qa_once = [kind |-> "None"] /\ qa_schema = <<>>
    /\ qa_delivered = <<>> /\ qa_result = [kind |-> "None"]

DecodeIdle ==
    /\ num_pc = "idle" /\ num_d = [none |-> TRUE] /\ num_raw = <<>>
    /\ num_out = [kind |-> "None"]
    /\ pc = "idle" /\ op = "none" /\ cols = <<>> /\ nrows = 0 /\ rows = <<>>
    /\ r = 0 /\ i = 0 /\ arrow_fields = <<>> /\ builders = <<>>
    /\ outcome = [kind |-> "None"]
    /\ sf_pc = "idle" /\ sf_column = [kind |-> "None"] /\ sf_idx = 0
    /\ sf_builder = <<>> /\ sf_result = [kind |-> "None"]
    /\ SchemaCastIdle

FactoryIdle ==
    /\ db = [tables |-> {}, indexes |-> {}]
    /\ f_pc = "idle" /\ f_cmd = [kind |-> "None"] /\ f_calls = 0
    /\ f_indexes = {} /\ f_txn = [kind |-> "None"] /\ f_io = <<>>
    /\ f_probe = [kind |-> "None"] /\ f_result = [kind |-> "None"]
    /\ f_strong = {} /\ f_worker = "idle"
    /\ f_value = [kind |-> "None"] /\ f_chan = [kind |-> "None"]

TableIdle ==
    /\ t_rows = {} /\ t_committed = {} /\ t_on_conflict = [kind |-> "None"]
    /\ t_conn = [changes |-> 0, total_changes |-> 0]
    /\ t_ops = 0 /\ t_last = [kind |-> "None"]

OdbcIdle ==
    /\ o_faults = [kind |-> "None"] /\ o_once = "incomplete"
    /\ o_env = [kind |-> "None"] /\ o_pc = <<>> /\ o_pools = <<>>
    /\ o_params = <<>> /\ o_join = {}

EmbedIdle ==
    /\ e_pc = <<>> /\ e_call = <<>> /\ e_result = <<>>
    /\ e_store = [kind |-> "None"] /\ e_models = <<>>

SearchIdle ==
    /\ vs_pc = "idle" /\ vs_df = <<>> /\ vs_explicit = <<>> /\ vs_tables = <<>>
    /\ vs_to_run = <<>> /\ vs_todo = <<>> /\ vs_embedded = <<>> /\ vs_embeds = <<>>
    /\ vs_per_table = <<>> /\ vs_pks = <<>> /\ vs_sql = <<>>
    /\ vs_result = [kind |-> "None"]

VectorIdle == EmbedIdle /\ SearchIdle

RestIdle == QueryIdle /\ FactoryIdle /\ TableIdle /\ OdbcIdle /\ VectorIdle

----------------------------------------------------------------------------
(* Bounds of the model *)

MaxSig == 6        \* significant decimal digits of an encoded decimal
MaxScale == 9      \* largest dscale of an encoded decimal
MaxRows == 2       \* rows given to rows_to_arrow
MaxStrLen == 2     \* characters of a BPCHAR cell
MaxSfRows == 3     \* rows of a Snowflake struct array
MaxBatches == 3    \* items the server emits for one query
MaxCreates == 3    \* calls of SqliteTableFactory::create on one database
MaxOps == 2        \* statements executed on one SQLite connection
MaxBatchRows == 2  \* rows of an inserted batch
MaxThreads == 2    \* threads that use ODBC
MaxPools == 2      \* ODBCPools constructed in the process
MaxTasks == 2      \* tasks that call embed concurrently
MaxTables == 2     \* tables named in one search

----------------------------------------------------------------------------
(* Decimal digit vectors, most significant digit first *)

Zeros(n) == [k \in 1..n |-> 0]

Reverse(s) == [k \in 1..Len(s) |-> s[Len(s) + 1 - k]]

RECURSIVE StripLeadingZeros(_)
StripLeadingZeros(s) ==
    IF s = <<>> THEN <<>>
    ELSE IF s[1] = 0 THEN StripLeadingZeros(Tail(s))
    ELSE s

\* -1, 0, 1 as a < b, a = b, a > b, for digit vectors without leading zeros
RECURSIVE CmpSameLen(_, _)
CmpSameLen(a, b) ==
    IF a = <<>> THEN 0
    ELSE IF a[1] < b[1] THEN -1
    ELSE IF a[1] > b[1] THEN 1
    ELSE CmpSameLen(Tail(a), Tail(b))

CmpMag(a, b) ==
    IF Len(a) < Len(b) THEN -1
    ELSE IF Len(a) > Len(b) THEN 1
    ELSE CmpSameLen(a, b)

\* a + b on little-endian digit vectors
RECURSIVE AddLE(_, _, _)
AddLE(a, b, carry) ==
    IF a = <<>> /\ b = <<>> THEN (IF carry = 0 THEN <<>> ELSE <<carry>>)
    ELSE LET x == IF a = <<>> THEN 0 ELSE a[1]
             y == IF b = <<>> THEN 0 ELSE b[1]
             s == x + y + carry
         IN  <<s % 10>> \o AddLE(IF a = <<>> THEN <<>> ELSE Tail(a),
                                  IF b = <<>> THEN <<>> ELSE Tail(b),
                                  s \div 10)

\* a - b on little-endian digit vectors, for a >= b
RECURSIVE SubLE(_, _, _)
SubLE(a, b, borrow) ==
    IF a = <<>> THEN <<>>
    ELSE LET y == IF b = <<>> THEN 0 ELSE b[1]
             d == a[1] - y - borrow
         IN  <<IF d < 0 THEN d + 10 ELSE d>>
             \o SubLE(Tail(a), IF b = <<>> THEN <<>> ELSE Tail(b),
                      IF d < 0 THEN 1 ELSE 0)

AddMag(a, b) == StripLeadingZeros(Reverse(AddLE(Reverse(a), Reverse(b), 0)))
SubMag(a, b) == StripLeadingZeros(Reverse(SubLE(Reverse(a), Reverse(b), 0)))

\* A signed integer: [neg, mag], mag without leading zeros, zero is never negative
Big(neg, digits) ==
    LET m == StripLeadingZeros(digits)
    IN  [neg |-> neg /\ m # <<>>, mag |-> m]

BigAdd(a, b) ==
    IF a.neg = b.neg THEN Big(a.neg, AddMag(a.mag, b.mag))
    ELSE IF CmpMag(a.mag, b.mag) >= 0 THEN Big(a.neg, SubMag(a.mag, b.mag))
    ELSE Big(b.neg, SubMag(b.mag, a.mag))

BigMulPow10(a, k) == Big(a.neg, a.mag \o Zeros(k))

RECURSIVE NatDigitsLE(_)
NatDigitsLE(n) == IF n = 0 THEN <<>> ELSE <<n % 10>> \o NatDigitsLE(n \div 10)

BigFromInt(n) == Big(n < 0, Reverse(NatDigitsLE(IF n < 0 THEN -n ELSE n)))

----------------------------------------------------------------------------
(* PostgreSQL binary NUMERIC: the words a server sends for a decimal *)

NoDecimal == [none |-> TRUE]

SignPlus == 0          \* 0x0000
SignMinus == 16384     \* 0x4000

AsU16(n) == IF n < 0 THEN n + 65536 ELSE n

RECURSIVE Group4(_)
Group4(ds) ==
    IF ds = <<>> THEN <<>>
    ELSE <<ds[1] * 1000 + ds[2] * 100 + ds[3] * 10 + ds[4]>>
         \o Group4(SubSeq(ds, 5, Len(ds)))

RECURSIVE LeadingZeroCount(_)
LeadingZeroCount(s) ==
    IF s = <<>> \/ s[1] # 0 THEN 0 ELSE 1 + LeadingZeroCount(Tail(s))

\* d = [neg, mag, scale] is the value (-1)^neg * mag / 10^scale.  The integer part
\* is padded on the left and the fraction on the right to whole base-10000 digits;
\* leading and trailing zero digits are not sent; zero is sent with no digits.
PgEncode(d) ==
    LET padded == IF Len(d.mag) < d.scale
                  THEN Zeros(d.scale - Len(d.mag)) \o d.mag ELSE d.mag
        nint == Len(padded) - d.scale
        intpart == SubSeq(padded, 1, nint)
        frac == SubSeq(padded, nint + 1, Len(padded))
        intpad == Zeros((4 - (nint % 4)) % 4) \o intpart
        fracpad == frac \o Zeros((4 - (d.scale % 4)) % 4)
        groups == Group4(intpad \o fracpad)
        lead == LeadingZeroCount(groups)
        nolead == SubSeq(groups, lead + 1, Len(groups))
        trail == LeadingZeroCount(Reverse(nolead))
        digits == SubSeq(nolead, 1, Len(nolead) - trail)
        weight == IF digits = <<>> THEN 0 ELSE (Len(intpad) \div 4) - 1 - lead
    IN  <<Len(digits), AsU16(weight),
          IF d.neg /\ digits # <<>> THEN SignMinus ELSE SignPlus,
          d.scale>> \o digits

\* flat_map(|&x| vec![(x >> 8) as u8, x as u8])
ToBytes(words) ==
    [k \in 1..(2 * Len(words)) |->
        IF k % 2 = 1 THEN words[(k + 1) \div 2] \div 256
        ELSE words[k \div 2] % 256]

----------------------------------------------------------------------------
(* BigDecimalFromSql::from_sql *)

\* raw.chunks(2).map(u16::from_be_bytes), a last single byte being the high byte
RawU16(raw) ==
    [k \in 1..((Len(raw) + 1) \div 2) |->
        IF 2 * k <= Len(raw) THEN raw[2 * k - 1] * 256 + raw[2 * k]
        ELSE raw[2 * k - 1] * 256]

\* raw_u16[1] as i16
AsI16(w) == IF w >= 32768 THEN w - 65536 ELSE w

\* A decoder that forgets the zero padding of a base-10000 digit
TempResultNoPad(base_10_000_digit) == NatDigitsLE(base_10_000_digit)

\* temp_result of one base-10000 digit: its decimal digits, least significant
\* first, then zeros up to four entries
TempResult(base_10_000_digit) ==
    LET t == NatDigitsLE(base_10_000_digit)
    IN  IF Len(t) < 4 THEN t \o Zeros(4 - Len(t)) ELSE t

\* u8_digits before the final reverse: the digits taken last to first
RECURSIVE ExtendRev(_)
ExtendRev(base_10_000_digits) ==
    IF base_10_000_digits = <<>> THEN <<>>
    ELSE TempResult(base_10_000_digits[Len(base_10_000_digits)])
         \o ExtendRev(SubSeq(base_10_000_digits, 1, Len(base_10_000_digits) - 1))

U8Digits(base_10_000_digits) == Reverse(ExtendRev(base_10_000_digits))

\* u8_digits.resize(size as usize, 0), for size >= 0
Resize(u8_digits, size) ==
    IF size <= Len(u8_digits) THEN SubSeq(u8_digits, 1, size)
    ELSE u8_digits \o Zeros(size - Len(u8_digits))

\* match sign { 0x4000 => Minus, 0x0000 => Plus, _ => Err }
SignOf(sign) ==
    IF sign = SignMinus THEN "Minus"
    ELSE IF sign = SignPlus THEN "Plus"
    ELSE "Invalid"

ParseError == [kind |-> "FailedToParseBigDecimalFromPostgres"]
Panic == [kind |-> "Panic"]

\* The words are indexed before any check: fewer than four words, or fewer digit
\* words than the count announces, is an index out of bounds; a negative size cast
\* to usize is a capacity overflow in resize.  Both happen before the sign is
\* matched.  (4 + count above u16::MAX overflows or, wrapped, leaves a negative
\* size: a panic in every build.)
from_sql(raw) ==
    LET raw_u16 == RawU16(raw)
    IN  IF Len(raw_u16) < 4 THEN Panic
        ELSE
        LET base_10_000_digit_count == raw_u16[1]
            weight == AsI16(raw_u16[2])
            sign == raw_u16[3]
            scale == raw_u16[4]
        IN  IF 4 + base_10_000_digit_count > 65535 THEN Panic
            ELSE IF Len(raw_u16) < 4 + base_10_000_digit_count THEN Panic
            ELSE
            LET base_10_000_digits == SubSeq(raw_u16, 5, 4 + base_10_000_digit_count)
                u8_digits == U8Digits(base_10_000_digits)
                value_scale == 4 * (base_10_000_digit_count - weight - 1)
                size == Len(u8_digits) + scale - value_scale
            IN  IF size < 0 THEN Panic
                ELSE IF SignOf(sign) = "Invalid" THEN ParseError
                ELSE [kind |-> "Ok",
                      inner |-> Big(SignOf(sign) = "Minus", Resize(u8_digits, size)),
                      scale |-> scale]

----------------------------------------------------------------------------
(* from_sql taken alone: a decimal is encoded and decoded, or arbitrary    *)
(* words are decoded                                                       *)

NoResult == [kind |-> "None"]

DecDigits == {0, 1, 9}

\* Digit vectors of up to MaxSig digits with no leading zero; <<>> is zero
Mags ==
    {<<>>} \cup UNION {{m \in [1..n -> DecDigits] : m[1] # 0} : n \in 1..MaxSig}

Decimals ==
    {[neg |-> ng, mag |-> m, scale |-> sc] :
        ng \in BOOLEAN, m \in Mags, sc \in 0..MaxScale} \ 
    {[neg |-> TRUE, mag |-> <<>>, scale |-> sc] : sc \in 0..MaxScale}

\* test_big_decimal_from_sql: positive_u16 and negative_u16
PositiveU16 == <<5, 3, 0, 5, 9345, 1293, 2903, 1293, 932>>
NegativeU16 == <<5, 3, 16384, 5, 9345, 1293, 2903, 1293, 932>>

\* 9345129329031293.0932 read at scale 5
TestUnscaled == <<9,3,4,5,1,2,9,3,2,9,0,3,1,2,9,3,0,9,3,2,0>>

\* The decimals of test_big_decimal_from_sql
TestDecimals ==
    {[neg |-> ng, mag |-> TestUnscaled, scale |-> 5] : ng \in BOOLEAN}

\* Words a client may put on the wire without being a server: any digit count,
\* weight, sign word and dscale, with as many digit words as announced or fewer
DigitWordSeqs ==
    {<<>>} \cup UNION {[1..n -> {1, 9999}] : n \in 1..2}

ArbitraryWords ==
    {<<nd, w, sg, sc>> \o ds :
        nd \in {0, 1, 2}, w \in {0, 1, 65535, 65533},
        sg \in {0, 16384, 32768, 49152}, sc \in {0, 5}, ds \in DigitWordSeqs}
    \cup {PositiveU16, NegativeU16}

InitNumeric ==
    /\ num_out = NoResult
    /\ \/ /\ num_pc = "input"
          /\ num_d \in Decimals \cup TestDecimals
          /\ num_raw = <<>>
       \/ /\ num_pc = "encoded"
          /\ num_d = NoDecimal
          /\ num_raw \in {ToBytes(w) : w \in ArbitraryWords}
    /\ pc = "idle" /\ op = "none" /\ cols = <<>> /\ nrows = 0 /\ rows = <<>>
    /\ r = 0 /\ i = 0 /\ arrow_fields = <<>> /\ builders = <<>>
    /\ outcome = NoResult
    /\ sf_pc = "idle" /\ sf_column = NoResult /\ sf_idx = 0
    /\ sf_builder = <<>> /\ sf_result = NoResult
    /\ SchemaCastIdle /\ RestIdle

\* The server side: the decimal is put on the wire
EncodeNumeric ==
    /\ num_pc = "input"
    /\ num_raw' = ToBytes(PgEncode(num_d))
    /\ num_pc' = "encoded"
    /\ UNCHANGED <<num_d, num_out, rowVars, sfVars, restVars>>

\* BigDecimalFromSql::from_sql(&Type::NUMERIC, raw)
FromSql ==
    /\ num_pc = "encoded"
    /\ num_out' = from_sql(num_raw)
    /\ num_pc' = "decoded"
    /\ UNCHANGED <<num_d, num_raw, rowVars, sfVars, restVars>>

NextNumeric == EncodeNumeric \/ FromSql

SpecNumeric == InitNumeric /\ [][NextNumeric]_vars

----------------------------------------------------------------------------
(* Values shared by the builders *)

NoneV == [kind |-> "None"]
Some(x) == [kind |-> "Some", v |-> x]

NullCell == [null |-> TRUE]
Cell(x) == [null |-> FALSE, v |-> x]

\* Arrow data types; p and s are the precision and scale of a Decimal128
DT(t) == [t |-> t, p |-> 0, s |-> 0]
Decimal128(p, s) == [t |-> "Decimal128", p |-> p, s |-> s]

\* An array builder: its type, its entries and, for a StructBuilder, the entries
\* of each child field builder; the composite type of the model is (a int4, b text)
Builder(dt) ==
    [dt |-> dt, vals |-> <<>>,
     kids |-> IF dt.t = "Struct" THEN <<<<>>, <<>>>> ELSE <<>>]

----------------------------------------------------------------------------
(* map_column_type_to_data_type and the builder of a data type *)

\* NUMERIC is None: its scale is read from the rows.  A type that is neither
\* listed nor a composite reaches unimplemented!().
map_column_type_to_data_type(column_type) ==
    CASE column_type = "INT4" -> Some(DT("Int32"))
      [] column_type = "BPCHAR" -> Some(DT("Utf8"))
      [] column_type = "NUMERIC" -> NoneV
      [] column_type = "TIMESTAMP" -> Some(DT("Timestamp"))
      [] column_type = "UUID" -> Some(DT("Utf8"))
      [] column_type = "COMPOSITE" -> Some(DT("Struct"))
      [] OTHER -> Panic

\* crate::arrow::map_data_type_to_array_builder_optional
map_data_type_to_array_builder_optional(data_type) ==
    IF data_type.kind = "None" THEN NoneV ELSE Some(Builder(data_type.v))

----------------------------------------------------------------------------
(* BigDecimalFromSql::to_decimal_128 and the Decimal128 builder *)

I128MaxMag ==
    <<1,7,0,1,4,1,1,8,3,4,6,0,4,6,9,2,3,1,7,3,1,6,8,7,3,0,3,7,1,5,8,8,4,1,0,5,7,2,7>>
I128MinMag ==
    <<1,7,0,1,4,1,1,8,3,4,6,0,4,6,9,2,3,1,7,3,1,6,8,7,3,0,3,7,1,5,8,8,4,1,0,5,7,2,8>>

FitsI128(b) ==
    IF b.neg THEN CmpMag(b.mag, I128MinMag) <= 0
    ELSE CmpMag(b.mag, I128MaxMag) <= 0

\* The largest n with 10^n <= i128::MAX
MaxPow10I128 == 38

\* A value the wrapped power of ten produced
Wrapped == [neg |-> FALSE, mag |-> <<>>, wrapped |-> TRUE]

\* (&self.inner * 10i128.pow(u32::from(self.scale))).to_i128(): the set of results
\* the builds can give.  inner * 10^scale is the unscaled integer, and to_i128 is
\* None when it does not fit.  10i128.pow overflows from scale 39 on: a panic
\* with overflow checks, and without them a product with the wrapped power,
\* which is 0 for a zero and otherwise some integer or None.
to_decimal_128(v) ==
    IF v.scale > MaxPow10I128
    THEN {Panic} \cup (IF v.inner.mag = <<>> THEN {Some(v.inner)}
                       ELSE {Some(Wrapped), NoneV})
    ELSE IF FitsI128(v.inner) THEN {Some(v.inner)}
    ELSE {NoneV}

\* scale.try_into().unwrap_or_default(): u16 to i8
ScaleAsI8(scale) == IF scale <= 127 THEN scale ELSE 0

\* Decimal128Builder::new().with_precision_and_scale(38, s).unwrap_or_default():
\* a scale above the precision is refused and the default builder, of type
\* Decimal128(38, 10), is used
NewDecimalBuilder(scale) ==
    IF ScaleAsI8(scale) <= 38 THEN Builder(Decimal128(38, ScaleAsI8(scale)))
    ELSE Builder(Decimal128(38, 10))

\* Field::new(field_name, DataType::Decimal128(38, scale as i8), true)
NewDecimalField(scale) == Decimal128(38, ScaleAsI8(scale))

----------------------------------------------------------------------------
(* BPCHAR: str::trim_end *)

\* char::is_whitespace, on code points
IsWhitespace(c) ==
    \/ c \in 9..13
    \/ c \in {32, 133, 160, 5760, 8232, 8233, 8239, 8287, 12288}
    \/ c \in 8192..8202

RECURSIVE TrimEnd(_)
TrimEnd(str) ==
    IF str = <<>> THEN <<>>
    ELSE IF IsWhitespace(str[Len(str)]) THEN TrimEnd(SubSeq(str, 1, Len(str) - 1))
    ELSE str

----------------------------------------------------------------------------
(* rows_to_arrow and columns_to_schema: the inputs *)

\* Column lists given to the two operations.  JSONB stands for a vendor type
\* that map_column_type_to_data_type does not list and that is no composite.
Schemas ==
    {<<>>, <<"INT4">>, <<"BPCHAR">>, <<"NUMERIC">>, <<"TIMESTAMP">>,
     <<"COMPOSITE">>, <<"JSONB">>,
     <<"INT4", "NUMERIC">>, <<"TIMESTAMP", "INT4">>, <<"NUMERIC", "TIMESTAMP">>,
     <<"COMPOSITE", "INT4">>, <<"INT4", "JSONB">>, <<"UUID", "TIMESTAMP">>}

\* Code points: a, space, tab
Chars == {97, 32, 9}

\* "abc   " and "a b "
LongStrings == {<<97, 98, 99, 32, 32, 32>>, <<97, 32, 98, 32>>}

Strings == UNION {[1..n -> Chars] : n \in 0..MaxStrLen} \cup LongStrings

\* NUMERIC cells as words: 1.5, 2.25, i128::MAX, i128::MAX + 1,
\* 0 at dscale 39, and NaN
NumericWords ==
    {<<2, 0, 0, 1, 1, 5000>>,
     <<2, 0, 0, 2, 2, 2500>>,
     <<10, 9, 0, 0, 170, 1411, 8346, 469, 2317, 3168, 7303, 7158, 8410, 5727>>,
     <<10, 9, 0, 0, 170, 1411, 8346, 469, 2317, 3168, 7303, 7158, 8410, 5728>>,
     <<0, 0, 0, 39>>,
     <<0, 0, 49152, 0>>}

\* Days from 1970-01-01 to a date of the Gregorian calendar
days_from_civil(year, month, day) ==
    LET y == IF month <= 2 THEN year - 1 ELSE year
        era == y \div 400
        yoe == y - era * 400
        doy == (153 * (IF month > 2 THEN month - 3 ELSE month + 9) + 2) \div 5 + day - 1
        doe == yoe * 365 + yoe \div 4 - yoe \div 100 + doy
    IN  era * 146097 + doe - 719468

\* The SystemTime of a TIMESTAMPTZ literal such as '2023-05-02 10:30:00-04:00':
\* whole seconds from the Unix epoch and the microseconds of the second
TimestampTz(year, month, day, hour, minute, second, offset_hours) ==
    [secs |-> days_from_civil(year, month, day) * 86400
              + (hour - offset_hours) * 3600 + minute * 60 + second,
     micros |-> 0]

\* TIMESTAMP cells: 1.5 ms before the Unix epoch, 2.5 ms after it, and the
\* time of test_postgres_types
Timestamps ==
    {[secs |-> -1, micros |-> 998500],
     [secs |-> 0, micros |-> 2500],
     TimestampTz(2023, 5, 2, 10, 30, 0, -4)}

\* UUID cells, as 16 bytes: 5ea5a3ac-07a0-4d4d-b201-faff68d8356c of
\* test_postgres_types and abcdef01-2345-6789-abcd-ef0123456789
Uuids ==
    {<<94, 165, 163, 172, 7, 160, 77, 77, 178, 1, 250, 255, 104, 216, 53, 108>>,
     <<171, 205, 239, 1, 35, 69, 103, 137, 171, 205, 239, 1, 35, 69, 103, 137>>}

\* The values a cell of a column of the given type may hold
CellValues(postgres_type) ==
    {NullCell} \cup
    CASE postgres_type = "INT4" -> {Cell(7)}
      [] postgres_type = "BPCHAR" -> {Cell(str) : str \in Strings}
      [] postgres_type = "NUMERIC" -> {Cell(ToBytes(w)) : w \in NumericWords}
      [] postgres_type = "TIMESTAMP" -> {Cell(t) : t \in Timestamps}
      [] postgres_type = "UUID" -> {Cell(u) : u \in Uuids}
      [] postgres_type = "COMPOSITE" ->
            {Cell(<<Cell(7), Cell(<<97>>)>>), Cell(<<NullCell, Cell(<<97>>)>>)}
      [] OTHER -> {}

InitRows ==
    /\ pc = "start"
    /\ op \in {"rows_to_arrow", "columns_to_schema"}
    /\ cols \in Schemas
    /\ nrows \in 0..MaxRows
    /\ op = "columns_to_schema" => nrows = 0
    /\ rows = <<>>
    /\ r = 0 /\ i = 0
    /\ arrow_fields = <<>> /\ builders = <<>>
    /\ outcome = NoResult
    /\ num_pc = "idle" /\ num_d = NoDecimal /\ num_raw = <<>> /\ num_out = NoResult
    /\ sf_pc = "idle" /\ sf_column = NoResult /\ sf_idx = 0
    /\ sf_builder = <<>> /\ sf_result = NoResult
    /\ SchemaCastIdle /\ RestIdle

----------------------------------------------------------------------------
(* columns_to_schema *)

Flatten(opts) ==
    LET F[k \in 0..Len(opts)] ==
            IF k = 0 THEN <<>>
            ELSE IF opts[k].kind = "Some" THEN Append(F[k - 1], opts[k].v)
            ELSE F[k - 1]
    IN  F[Len(opts)]

ColumnsToSchema ==
    /\ pc = "start" /\ op = "columns_to_schema"
    /\ LET data_types == [k \in 1..Len(cols) |-> map_column_type_to_data_type(cols[k])]
       IN  outcome' =
             IF \E k \in 1..Len(cols) : data_types[k].kind = "Panic" THEN Panic
             ELSE [kind |-> "Ok", schema |-> Flatten(data_types)]
    /\ pc' = "done"
    /\ UNCHANGED <<op, cols, nrows, rows, r, i, arrow_fields, builders, numVars, sfVars, restVars>>

----------------------------------------------------------------------------
(* rows_to_arrow: schema of the first row *)

\* if !rows.is_empty() { for column in rows[0].columns() { ... } }
\* With no rows nothing is mapped and the loops have nothing to visit.
Start ==
    /\ pc = "start" /\ op = "rows_to_arrow"
    /\ LET data_types == [k \in 1..Len(cols) |-> map_column_type_to_data_type(cols[k])]
       IN  IF nrows = 0
           THEN /\ pc' = "finish"
                /\ UNCHANGED <<arrow_fields, builders, outcome, r, i, rows>>
           ELSE IF \E k \in 1..Len(cols) : data_types[k].kind = "Panic"
           THEN /\ pc' = "done"
                /\ outcome' = Panic
                /\ UNCHANGED <<arrow_fields, builders, r, i, rows>>
           ELSE /\ arrow_fields' = data_types
                /\ builders' = [k \in 1..Len(cols) |->
                                  map_data_type_to_array_builder_optional(data_types[k])]
                /\ pc' = IF Len(cols) = 0 THEN "finish" ELSE "cells"
                /\ r' = 1 /\ i' = 1
                /\ rows' = IF Len(cols) = 0 THEN [k \in 1..nrows |-> <<>>] ELSE <<<<>>>>
                /\ UNCHANGED outcome
    /\ UNCHANGED <<op, cols, nrows, numVars, sfVars, restVars>>

----------------------------------------------------------------------------
(* rows_to_arrow: the loops over rows and columns *)

\* The rows read so far, with the cell at (r, i)
Read(cell) == [rows EXCEPT ![r] = Append(@, cell)]

\* The cell at (r, i) is done and the loops go on
Continue(cell) ==
    /\ outcome' = outcome
    /\ IF i < Len(cols)
       THEN /\ i' = i + 1 /\ r' = r /\ pc' = "cells"
            /\ rows' = Read(cell)
       ELSE IF r < nrows
       THEN /\ i' = 1 /\ r' = r + 1 /\ pc' = "cells"
            /\ rows' = Append(Read(cell), <<>>)
       ELSE /\ pc' = "finish"
            /\ rows' = Read(cell)
            /\ UNCHANGED <<r, i>>

\* return Err(..) or a panic while the cell at (r, i) is decoded
Fail(cell, err) ==
    /\ outcome' = err
    /\ pc' = "done"
    /\ rows' = Read(cell)
    /\ UNCHANGED <<r, i, arrow_fields, builders>>

Error(kind) == [kind |-> kind]

append_value(b, x) == [b EXCEPT !.vals = Append(@, Cell(x))]
append_null(b) == [b EXCEPT !.vals = Append(@, NullCell)]

\* handle_primitive_type!(builder, Type::INT4, Int32Builder, i32, row, i)
handle_primitive_type(cell, data_type) ==
    IF builders[i].kind = "None" THEN Fail(cell, Error("NoBuilderForIndex"))
    ELSE IF builders[i].v.dt.t # data_type
    THEN Fail(cell, Error("FailedToDowncastBuilder"))
    ELSE /\ builders' = [builders EXCEPT ![i] =
                           Some(IF cell.null THEN append_null(@.v)
                                ELSE append_value(@.v, cell.v))]
         /\ UNCHANGED arrow_fields
         /\ Continue(cell)

CellInt4 ==
    /\ pc = "cells" /\ cols[i] = "INT4"
    /\ \E cell \in CellValues("INT4") : handle_primitive_type(cell, "Int32")
    /\ UNCHANGED <<op, cols, nrows, numVars, sfVars, restVars>>

\* Some(v) => builder.append_value(v.trim_end()), None => builder.append_null()
CellBpchar ==
    /\ pc = "cells" /\ cols[i] = "BPCHAR"
    /\ \E cell \in CellValues("BPCHAR") :
         IF builders[i].kind = "None" THEN Fail(cell, Error("NoBuilderForIndex"))
         ELSE IF builders[i].v.dt.t # "Utf8"
         THEN Fail(cell, Error("FailedToDowncastBuilder"))
         ELSE /\ builders' = [builders EXCEPT ![i] =
                                Some(IF cell.null THEN append_null(@.v)
                                     ELSE append_value(@.v, TrimEnd(cell.v)))]
              /\ UNCHANGED arrow_fields
              /\ Continue(cell)
    /\ UNCHANGED <<op, cols, nrows, numVars, sfVars, restVars>>

\* row.try_get::<Option<BigDecimalFromSql>>(i): from_sql on a non-null cell
TryGetNumeric(cell) == IF cell.null THEN NoneV ELSE from_sql(cell.v)

\* Type::NUMERIC: the builder and the field are made at the first cell the loop
\* visits, with the scale of that cell, 0 for a null
CellNumeric ==
    /\ pc = "cells" /\ cols[i] = "NUMERIC"
    /\ \E cell \in CellValues("NUMERIC") :
         LET v == TryGetNumeric(cell)
             scale == IF v.kind = "Ok" THEN v.scale ELSE 0
             dec_builder == IF builders[i].kind = "None"
                            THEN NewDecimalBuilder(scale) ELSE builders[i].v
             field == IF arrow_fields[i].kind = "None"
                      THEN Some(NewDecimalField(scale)) ELSE arrow_fields[i]
         IN  IF v.kind = "Panic" THEN Fail(cell, Panic)
             ELSE IF v.kind = "FailedToParseBigDecimalFromPostgres"
             THEN Fail(cell, Error("FailedToGetRowValue"))
             ELSE IF dec_builder.dt.t # "Decimal128"
             THEN Fail(cell, Error("FailedToDowncastBuilder"))
             ELSE IF v.kind = "None"
             THEN /\ builders' = [builders EXCEPT ![i] = Some(append_null(dec_builder))]
                  /\ arrow_fields' = [arrow_fields EXCEPT ![i] = field]
                  /\ Continue(cell)
             ELSE \E v_i128 \in to_decimal_128(v) :
                    IF v_i128.kind = "Panic" THEN Fail(cell, Panic)
                    ELSE IF v_i128.kind = "None"
                    THEN Fail(cell, Error("FailedToConvertBigDecimalToI128"))
                    ELSE /\ builders' = [builders EXCEPT ![i] =
                                           Some(append_value(dec_builder, v_i128.v))]
                         /\ arrow_fields' = [arrow_fields EXCEPT ![i] = field]
                         /\ Continue(cell)
    /\ UNCHANGED <<op, cols, nrows, numVars, sfVars, restVars>>

I64MaxMag == <<9,2,2,3,3,7,2,0,3,6,8,5,4,7,7,5,8,0,7>>
I64MinMag == <<9,2,2,3,3,7,2,0,3,6,8,5,4,7,7,5,8,0,8>>

FitsI64(b) ==
    IF b.neg THEN CmpMag(b.mag, I64MinMag) <= 0
    ELSE CmpMag(b.mag, I64MaxMag) <= 0

\* v.duration_since(UNIX_EPOCH): Err for a time before the epoch
duration_since_epoch(t) ==
    IF t.secs >= 0 THEN [kind |-> "Ok", secs |-> t.secs, micros |-> t.micros]
    ELSE Error("Err")

\* The whole seconds of the duration as milliseconds
as_secs_millis(d) == BigMulPow10(BigFromInt(d.secs), 3)

\* Duration::as_millis: whole milliseconds, a u128
as_millis(d) ==
    BigAdd(BigMulPow10(BigFromInt(d.secs), 3), BigFromInt(d.micros \div 1000))

\* i64::try_from(u128)
try_into_i64(n) == IF FitsI64(n) THEN Some(n) ELSE NoneV

\* A decoder that writes a null for a time before the epoch
before_epoch_null(b) == append_null(b)

\* if let Ok(v) = v.duration_since(UNIX_EPOCH) { .. } has no else
before_epoch(b) == b

\* Type::TIMESTAMP | Type::TIMESTAMPTZ
CellTimestamp ==
    /\ pc = "cells" /\ cols[i] = "TIMESTAMP"
    /\ \E cell \in CellValues("TIMESTAMP") :
         IF builders[i].kind = "None" THEN Fail(cell, Error("NoBuilderForIndex"))
         ELSE IF builders[i].v.dt.t # "Timestamp"
         THEN Fail(cell, Error("FailedToDowncastBuilder"))
         ELSE IF cell.null
         THEN /\ builders' = [builders EXCEPT ![i] = Some(append_null(@.v))]
              /\ UNCHANGED arrow_fields
              /\ Continue(cell)
         ELSE LET v == duration_since_epoch(cell.v)
              IN  IF v.kind # "Ok"
                  THEN /\ builders' = [builders EXCEPT ![i] = Some(before_epoch(@.v))]
                       /\ UNCHANGED arrow_fields
                       /\ Continue(cell)
                  ELSE LET timestamp == try_into_i64(as_millis(v))
                       IN  IF timestamp.kind = "None"
                           THEN Fail(cell, Error("FailedToConvertU128toI64"))
                           ELSE /\ builders' = [builders EXCEPT ![i] =
                                                  Some(append_value(@.v, timestamp.v))]
                                /\ UNCHANGED arrow_fields
                                /\ Continue(cell)
    /\ UNCHANGED <<op, cols, nrows, numVars, sfVars, restVars>>

HexDigits == <<"0", "1", "2", "3", "4", "5", "6", "7",
               "8", "9", "a", "b", "c", "d", "e", "f">>

\* Two lowercase hexadecimal digits for every byte
RECURSIVE hex(_)
hex(bytes) ==
    IF bytes = <<>> THEN <<>>
    ELSE <<HexDigits[(Head(bytes) \div 16) + 1], HexDigits[(Head(bytes) % 16) + 1]>>
         \o hex(Tail(bytes))

\* Uuid::to_string: the hyphenated form, 8-4-4-4-12
uuid_to_string(bytes) ==
    hex(SubSeq(bytes, 1, 4)) \o <<"-">> \o hex(SubSeq(bytes, 5, 6)) \o <<"-">>
    \o hex(SubSeq(bytes, 7, 8)) \o <<"-">> \o hex(SubSeq(bytes, 9, 10)) \o <<"-">>
    \o hex(SubSeq(bytes, 11, 16))

\* Type::UUID: Some(v) => builder.append_value(v.to_string())
CellUuid ==
    /\ pc = "cells" /\ cols[i] = "UUID"
    /\ \E cell \in CellValues("UUID") :
         IF builders[i].kind = "None" THEN Fail(cell, Error("NoBuilderForIndex"))
         ELSE IF builders[i].v.dt.t # "Utf8"
         THEN Fail(cell, Error("FailedToDowncastBuilder"))
         ELSE /\ builders' = [builders EXCEPT ![i] =
                                Some(IF cell.null THEN append_null(@.v)
                                     ELSE append_value(@.v, uuid_to_string(cell.v)))]
              /\ UNCHANGED arrow_fields
              /\ Continue(cell)
    /\ UNCHANGED <<op, cols, nrows, numVars, sfVars, restVars>>

\* handle_composite_type!: the value of each field goes to its field builder
AppendFields(b, fields) ==
    [b EXCEPT !.kids = [idx \in 1..Len(@) |-> Append(@[idx], fields[idx])]]

\* Kind::Composite: StructBuilder::append_null() and append(true) write the
\* validity of the struct entry only
CellComposite ==
    /\ pc = "cells" /\ cols[i] = "COMPOSITE"
    /\ \E cell \in CellValues("COMPOSITE") :
         IF builders[i].kind = "None" THEN Fail(cell, Error("NoBuilderForIndex"))
         ELSE IF builders[i].v.dt.t # "Struct"
         THEN Fail(cell, Error("FailedToDowncastBuilder"))
         ELSE /\ builders' =
                   IF cell.null
                   THEN [builders EXCEPT ![i] = Some(append_null(@.v))]
                   ELSE [builders EXCEPT ![i] =
                           Some(AppendFields(append_value(@.v, TRUE), cell.v))]
              /\ UNCHANGED arrow_fields
              /\ Continue(cell)
    /\ UNCHANGED <<op, cols, nrows, numVars, sfVars, restVars>>

----------------------------------------------------------------------------
(* rows_to_arrow: the record batch *)

\* StructBuilder::finish validates that every field builder is as long as the
\* struct builder and panics otherwise
FinishPanics(b) ==
    b.dt.t = "Struct" /\ \E idx \in 1..Len(b.kids) : Len(b.kids[idx]) # Len(b.vals)

\* A batch assembled without the validation of the column lengths and types
new_unchecked(fields, columns, row_count) ==
    [kind |-> "Ok",
     batch |-> [schema |-> fields, columns |-> columns, num_rows |-> row_count]]

\* RecordBatch::try_new_with_options(schema, columns, with_row_count(Some(n))):
\* as many columns as fields, every column of n entries and of its field's type
try_new_with_options(fields, columns, row_count) ==
    IF /\ Len(fields) = Len(columns)
       /\ \A k \in 1..Len(columns) :
            /\ Len(columns[k].vals) = row_count
            /\ columns[k].dt = fields[k]
    THEN [kind |-> "Ok",
          batch |-> [schema |-> fields, columns |-> columns, num_rows |-> row_count]]
    ELSE Error("FailedToBuildRecordBatch")

Finish ==
    /\ pc = "finish"
    /\ LET columns == Flatten(builders)
           fields == Flatten(arrow_fields)
       IN  outcome' = IF \E k \in 1..Len(columns) : FinishPanics(columns[k]) THEN Panic
                      ELSE try_new_with_options(fields, columns, nrows)
    /\ pc' = "done"
    /\ UNCHANGED <<op, cols, nrows, rows, r, i, arrow_fields, builders, numVars, sfVars, restVars>>

NextRows ==
    \/ ColumnsToSchema
    \/ Start
    \/ CellInt4
    \/ CellBpchar
    \/ CellNumeric
    \/ CellTimestamp
    \/ CellUuid
    \/ CellComposite
    \/ Finish

SpecRows == InitRows /\ [][NextRows]_vars

----------------------------------------------------------------------------
(* cast_sf_timestamp_ntz_to_arrow_timestamp *)

\* Rust's / on integers rounds toward zero
TruncDiv(a, b) == IF a >= 0 THEN a \div b ELSE -((-a) \div b)

\* Rows of a TIMESTAMP_NTZ struct array: (epoch: i64, fraction: i32).  The first
\* two are those of test_cast_sf_timestamp_ntz_to_arrow_timestamp; the others
\* are a time before the epoch and epochs around i64::MAX / 1000 and at the
\* ends of i64.
SfRow(neg, digits, fraction) == Cell([epoch |-> Big(neg, digits), fraction |-> fraction])

SfRows ==
    {NullCell,
     SfRow(FALSE, <<1,6,9,6,1,6,4,3,3,0>>, 0),
     SfRow(FALSE, <<1,7,1,4,6,4,7,3,0,1>>, 739000000),
     SfRow(TRUE, <<1>>, -1500000),
     SfRow(FALSE, <<9,2,2,3,3,7,2,0,3,6,8,5,4,7,7,5>>, 0),
     SfRow(FALSE, <<9,2,2,3,3,7,2,0,3,6,8,5,4,7,7,5>>, 2147483647),
     SfRow(FALSE, <<9,2,2,3,3,7,2,0,3,6,8,5,4,7,7,6>>, 0),
     SfRow(FALSE, I64MaxMag, 0),
     SfRow(TRUE, I64MinMag, 0)}

SfEntries == UNION {[1..n -> SfRows] : n \in 0..MaxSfRows}

\* The column handed to the cast: a struct array of (epoch, fraction), or an
\* array of another shape
SfColumns ==
    {[is_struct |-> TRUE, children |-> <<"Int64", "Int32">>, entries |-> e] :
        e \in SfEntries}
    \cup {[is_struct |-> FALSE, children |-> <<>>, entries |-> <<>>],
          [is_struct |-> TRUE, children |-> <<"Int64">>, entries |-> <<>>],
          [is_struct |-> TRUE, children |-> <<"Int32", "Int32">>, entries |-> <<>>],
          [is_struct |-> TRUE, children |-> <<"Int64", "Int64">>, entries |-> <<>>]}

\* A field of the batch handed to snowflake_schema_cast
SfField(name, logical_type, nullable) ==
    [name |-> name, logicalType |-> logical_type, nullable |-> nullable]

\* The fields of the batch.  The data of every field that carries a logicalType
\* of timestamp_ntz (in any case) is sf_column; a field with another logicalType
\* or with none is a column of 64-bit integers.
SfFieldLists ==
    {<<SfField("ts", Some("TIMESTAMP_NTZ"), TRUE)>>,
     <<SfField("ts", Some("timestamp_ntz"), FALSE)>>,
     <<SfField("n", Some("FIXED"), TRUE)>>,
     <<SfField("n", NoneV, TRUE), SfField("ts", Some("TIMESTAMP_NTZ"), TRUE)>>,
     <<SfField("ts", Some("Timestamp_Ntz"), TRUE), SfField("n", Some("FIXED"), FALSE)>>,
     <<SfField("ts", Some("TIMESTAMP_NTZ"), TRUE), SfField("t2", Some("TIMESTAMP_NTZ"), TRUE)>>}

\* str::to_lowercase on the logical types Snowflake sends
to_lowercase(str) ==
    CASE str = "TIMESTAMP_NTZ" -> "timestamp_ntz"
      [] str = "Timestamp_Ntz" -> "timestamp_ntz"
      [] str = "FIXED" -> "fixed"
      [] OTHER -> str

\* if let Some(t) = field.metadata().get("logicalType") { t.to_lowercase() == "timestamp_ntz" }
IsTimestampNtz(field) ==
    /\ field.logicalType.kind = "Some"
    /\ to_lowercase(field.logicalType.v) = "timestamp_ntz"

\* The batch is a valid RecordBatch: a field that is not nullable has no null
InitSf ==
    /\ sf_column \in SfColumns
    /\ sf_idx = 0
    /\ sf_builder = <<>>
    /\ sf_result = NoResult
    /\ \/ /\ sc_pc = "direct"
          /\ sf_pc = "check"
          /\ sc_fields = <<>>
       \/ /\ sc_pc = "loop"
          /\ sf_pc = "idle"
          /\ sc_fields \in SfFieldLists
          /\ \A k \in 1..Len(sc_fields) :
               (IsTimestampNtz(sc_fields[k]) /\ ~sc_fields[k].nullable) =>
                   \A j \in 1..Len(sf_column.entries) : ~sf_column.entries[j].null
    /\ sc_idx = 0
    /\ sc_out = [fields |-> <<>>, columns |-> <<>>]
    /\ sc_result = NoResult
    /\ num_pc = "idle" /\ num_d = NoDecimal /\ num_raw = <<>> /\ num_out = NoResult
    /\ pc = "idle" /\ op = "none" /\ cols = <<>> /\ nrows = 0 /\ rows = <<>>
    /\ r = 0 /\ i = 0 /\ arrow_fields = <<>> /\ builders = <<>>
    /\ outcome = NoResult
    /\ RestIdle

\* A check of the shape that accepts any second child
UnexpectedShapeEpochOnly(column) ==
    \/ ~column.is_struct
    \/ Len(column.children) < 2
    \/ column.children[1] # "Int64"

\* The downcast to StructArray, the column count and the downcasts of the two
\* children to Int64Array and Int32Array: TRUE when one of them fails
UnexpectedShape(column) ==
    \/ ~column.is_struct
    \/ Len(column.children) < 2
    \/ column.children[1] # "Int64"
    \/ column.children[2] # "Int32"

\* The downcasts and the column count that precede the loop
SfCheck ==
    /\ sf_pc = "check"
    /\ IF UnexpectedShape(sf_column)
       THEN /\ sf_result' = Error("UnableToCastSnowflakeTimestamp")
            /\ sf_pc' = "done"
       ELSE /\ sf_pc' = "loop"
            /\ UNCHANGED sf_result
    /\ UNCHANGED <<sf_column, sf_idx, sf_builder, scVars, numVars, rowVars, restVars>>

\* epoch * 1_000 + fraction / 1_000_000 in i64: the set of results the builds
\* can give.  A product or a sum outside i64 is a panic with overflow checks
\* and a wrapped value without them.
SfTimestamp(epoch, fraction) ==
    LET product == BigMulPow10(epoch, 3)
        sum == BigAdd(product, BigFromInt(TruncDiv(fraction, 1000000)))
    IN  IF FitsI64(product) /\ FitsI64(sum) THEN {Some(sum)}
        ELSE {Panic, Some(Wrapped)}

\* A loop that appends nothing for a null row
AppendRowSkipNull(builder, row, timestamp) ==
    IF row.null THEN builder ELSE Append(builder, Cell(timestamp))

\* if struct_array.is_null(idx) { append_null() } else { append_value(timestamp) }
AppendRow(builder, row, timestamp) ==
    IF row.null THEN Append(builder, NullCell) ELSE Append(builder, Cell(timestamp))

\* One iteration of for idx in 0..struct_array.len()
SfLoop ==
    /\ sf_pc = "loop"
    /\ sf_idx < Len(sf_column.entries)
    /\ LET row == sf_column.entries[sf_idx + 1]
       IN  IF row.null
           THEN /\ sf_builder' = AppendRow(sf_builder, row, 0)
                /\ sf_idx' = sf_idx + 1
                /\ UNCHANGED <<sf_pc, sf_result>>
           ELSE \E timestamp \in SfTimestamp(row.v.epoch, row.v.fraction) :
                  IF timestamp.kind = "Panic"
                  THEN /\ sf_result' = Panic
                       /\ sf_pc' = "done"
                       /\ UNCHANGED <<sf_builder, sf_idx>>
                  ELSE /\ sf_builder' = AppendRow(sf_builder, row, timestamp.v)
                       /\ sf_idx' = sf_idx + 1
                       /\ UNCHANGED <<sf_pc, sf_result>>
    /\ UNCHANGED <<sf_column, scVars, numVars, rowVars, restVars>>

\* Ok(Arc::new(builder.finish()))
SfFinish ==
    /\ sf_pc = "loop"
    /\ sf_idx = Len(sf_column.entries)
    /\ sf_result' = [kind |-> "Ok", array |-> sf_builder]
    /\ sf_pc' = "done"
    /\ UNCHANGED <<sf_column, sf_idx, sf_builder, scVars, numVars, rowVars, restVars>>

----------------------------------------------------------------------------
(* snowflake_schema_cast *)

TimestampMillisecond == "Timestamp(Millisecond, None)"

\* A column that carries no timestamp_ntz: as many 64-bit integers as the batch
\* has rows
PlainColumn(n) ==
    [data_type |-> "Int64", vals |-> [k \in 1..n |-> Cell(Big(FALSE, <<7>>))]]

\* Field::new(field.name(), DataType::Timestamp(Millisecond, None), field.is_nullable())
\* (a new field has no metadata)
CastField(field) ==
    [name |-> field.name, data_type |-> TimestampMillisecond,
     logicalType |-> NoneV, nullable |-> field.nullable]

\* Arc::clone(field): the field as it is, a column of 64-bit integers
KeptField(field) ==
    [name |-> field.name, data_type |-> "Int64",
     logicalType |-> field.logicalType, nullable |-> field.nullable]

\* RecordBatch::try_new(schema, columns): at least one column, as many columns
\* as fields, all of one length, each of its field's type, and no null in a
\* column whose field is not nullable
try_new(fields, columns) ==
    IF /\ Len(columns) > 0
       /\ Len(fields) = Len(columns)
       /\ \A k \in 1..Len(columns) :
            /\ Len(columns[k].vals) = Len(columns[1].vals)
            /\ columns[k].data_type = fields[k].data_type
            /\ fields[k].nullable \/ \A j \in 1..Len(columns[k].vals) : ~columns[k].vals[j].null
    THEN [kind |-> "Ok",
          batch |-> [schema |-> fields, columns |-> columns,
                     num_rows |-> Len(columns[1].vals)]]
    ELSE Error("FailedToCreateRecordBatch")

\* A field that is not a timestamp_ntz: field and column are kept
ScPlain ==
    /\ sc_pc = "loop"
    /\ sc_idx < Len(sc_fields)
    /\ ~IsTimestampNtz(sc_fields[sc_idx + 1])
    /\ sc_out' = [fields |-> Append(sc_out.fields, KeptField(sc_fields[sc_idx + 1])),
                  columns |-> Append(sc_out.columns, PlainColumn(Len(sf_column.entries)))]
    /\ sc_idx' = sc_idx + 1
    /\ UNCHANGED <<sc_pc, sc_fields, sc_result, castVars, numVars, rowVars, restVars>>

\* A timestamp_ntz field: the new field is pushed and the cast is called
ScCall ==
    /\ sc_pc = "loop"
    /\ sc_idx < Len(sc_fields)
    /\ IsTimestampNtz(sc_fields[sc_idx + 1])
    /\ sc_out' = [sc_out EXCEPT !.fields = Append(@, CastField(sc_fields[sc_idx + 1]))]
    /\ sc_pc' = "cast"
    /\ sf_pc' = "check"
    /\ sf_idx' = 0
    /\ sf_builder' = <<>>
    /\ sf_result' = NoResult
    /\ UNCHANGED <<sc_fields, sc_idx, sc_result, sf_column, numVars, rowVars, restVars>>

\* columns.push(cast(column)?): an Err (or a panic) of the cast ends the schema
\* cast with it, an Ok is unwrapped to the column
QuestionMark(result) ==
    IF result.kind = "Ok"
    THEN [return |-> FALSE,
          value |-> [data_type |-> TimestampMillisecond, vals |-> result.array]]
    ELSE [return |-> TRUE, value |-> result]

\* The cast has returned
ScReturn ==
    /\ sc_pc = "cast"
    /\ sf_pc = "done"
    /\ LET q == QuestionMark(sf_result)
       IN  IF q.return
           THEN /\ sc_result' = q.value
                /\ sc_pc' = "done"
                /\ UNCHANGED <<sc_out, sc_idx>>
           ELSE /\ sc_out' = [sc_out EXCEPT !.columns = Append(@, q.value)]
                /\ sc_idx' = sc_idx + 1
                /\ sc_pc' = "loop"
                /\ UNCHANGED sc_result
    /\ UNCHANGED <<sc_fields, castVars, numVars, rowVars, restVars>>

\* RecordBatch::try_new(Arc::new(Schema::new(fields)), columns)
ScFinish ==
    /\ sc_pc = "loop"
    /\ sc_idx = Len(sc_fields)
    /\ sc_result' = try_new(sc_out.fields, sc_out.columns)
    /\ sc_pc' = "done"
    /\ UNCHANGED <<sc_fields, sc_idx, sc_out, castVars, numVars, rowVars, restVars>>

NextSf == SfCheck \/ SfLoop \/ SfFinish \/ ScPlain \/ ScCall \/ ScReturn \/ ScFinish

SpecSf == InitSf /\ [][NextSf]_vars

----------------------------------------------------------------------------
(* SnowflakeConnection::query_arrow *)

\* snowflake_schema_cast as a function of the batch: the error of the cast when
\* a timestamp_ntz column has an unexpected shape, and otherwise the batch with
\* every timestamp_ntz field retyped.  The values are those of the batch
\* (batch.id names them); they are taken to be in the range of the cast.
snowflake_schema_cast(batch) ==
    IF /\ \E k \in 1..Len(batch.schema) : IsTimestampNtz(batch.schema[k])
       /\ UnexpectedShape(batch.column)
    THEN Error("UnableToCastSnowflakeTimestamp")
    ELSE [kind |-> "Ok",
          batch |-> [id |-> batch.id,
                     schema |-> [k \in 1..Len(batch.schema) |->
                                    IF IsTimestampNtz(batch.schema[k])
                                    THEN CastField(batch.schema[k])
                                    ELSE KeptField(batch.schema[k])],
                     column |-> batch.column,
                     cast |-> TRUE]]

\* stream.map(|batch| batch.and_then(|batch| snowflake_schema_cast(&batch)
\*     .map_err(|e| ArrowError::ExternalError(Box::new(e)))))
Transformed(item) ==
    IF item.kind # "Ok" THEN item
    ELSE LET res == snowflake_schema_cast(item.batch)
         IN  IF res.kind = "Ok" THEN res ELSE Error("ExternalError")

\* .map_err(to_execution_error)
map_err_to_execution_error(item) ==
    IF item.kind = "Ok" THEN item ELSE Error("Execution")

\* The shapes of the timestamp_ntz column of a batch
QaColumns ==
    {[is_struct |-> TRUE, children |-> <<"Int64", "Int32">>, entries |-> <<>>],
     [is_struct |-> TRUE, children |-> <<"Int64">>, entries |-> <<>>]}

QaSchemas ==
    {<<SfField("ts", Some("TIMESTAMP_NTZ"), TRUE)>>,
     <<SfField("n", NoneV, TRUE), SfField("ts", Some("TIMESTAMP_NTZ"), TRUE)>>,
     <<SfField("n", Some("FIXED"), TRUE)>>}

\* What the server emits at position k: a batch or an error
QaItems(k) ==
    {[kind |-> "Ok", batch |-> [id |-> k, schema |-> f, column |-> c, cast |-> FALSE]] :
        f \in QaSchemas, c \in QaColumns}
    \cup {Error("ArrowError")}

QaServers ==
    UNION {{srv \in [1..n -> UNION {QaItems(k) : k \in 1..n}] :
               \A k \in 1..n : srv[k] \in QaItems(k)} : n \in 0..MaxBatches}

InitQuery ==
    /\ qa_pc = "exec"
    /\ qa_server \in QaServers
    /\ qa_pos = 0
    /\ qa_once = NoneV
    /\ qa_schema = <<>>
    /\ qa_delivered = <<>>
    /\ qa_result = NoResult
    /\ DecodeIdle /\ FactoryIdle /\ TableIdle /\ OdbcIdle /\ VectorIdle

\* self.api.exec_streamed(&sql).await.context(SnowflakeQuerySnafu)?
QaExecStreamed ==
    /\ qa_pc = "exec"
    /\ \/ /\ qa_pc' = "peek"
          /\ UNCHANGED qa_result
       \/ /\ qa_result' = Error("SnowflakeQueryError")
          /\ qa_pc' = "failed"
    /\ UNCHANGED <<qa_server, qa_pos, qa_once, qa_schema, qa_delivered, outsideQuery>>

\* The first batch is used for the schema and not put back
run_once_dropped(batch) == NoneV

\* stream::once(async move { Ok(batch) })
run_once(batch) == Some([kind |-> "Ok", batch |-> batch])

\* transformed_stream.next().await and what follows it, up to the return
QaPeek ==
    /\ qa_pc = "peek"
    /\ IF qa_pos = Len(qa_server)
       THEN \* None: an empty stream with the empty schema
            /\ qa_result' = [kind |-> "Ok"]
            /\ qa_pc' = "ended"
            /\ UNCHANGED <<qa_pos, qa_once, qa_schema>>
       ELSE LET first_batch == Transformed(qa_server[qa_pos + 1])
            IN  /\ qa_pos' = qa_pos + 1
                /\ IF first_batch.kind # "Ok"
                   THEN /\ qa_result' = Error("SnowflakeArrowError")
                        /\ qa_pc' = "failed"
                        /\ UNCHANGED <<qa_once, qa_schema>>
                   ELSE /\ qa_schema' = first_batch.batch.schema
                        /\ qa_once' = run_once(first_batch.batch)
                        /\ qa_result' = [kind |-> "Ok"]
                        /\ qa_pc' = "returned"
    /\ UNCHANGED <<qa_server, qa_delivered, outsideQuery>>

\* A poll of run_once.chain(transformed_stream): the first stream while it has
\* its item
QaPollOnce ==
    /\ qa_pc = "returned"
    /\ qa_once.kind = "Some"
    /\ qa_delivered' = Append(qa_delivered, map_err_to_execution_error(qa_once.v))
    /\ qa_once' = NoneV
    /\ UNCHANGED <<qa_pc, qa_server, qa_pos, qa_schema, qa_result, outsideQuery>>

\* A poll once run_once is exhausted: the next item of the transformed stream
QaPollRest ==
    /\ qa_pc = "returned"
    /\ qa_once.kind = "None"
    /\ qa_pos < Len(qa_server)
    /\ qa_delivered' = Append(qa_delivered,
                              map_err_to_execution_error(Transformed(qa_server[qa_pos + 1])))
    /\ qa_pos' = qa_pos + 1
    /\ UNCHANGED <<qa_pc, qa_server, qa_once, qa_schema, qa_result, outsideQuery>>

\* A poll once both streams are exhausted: the end of the stream
QaPollEnd ==
    /\ qa_pc = "returned"
    /\ qa_once.kind = "None"
    /\ qa_pos = Len(qa_server)
    /\ qa_pc' = "ended"
    /\ UNCHANGED <<qa_server, qa_pos, qa_once, qa_schema, qa_delivered, qa_result, outsideQuery>>

NextQuery == QaExecStreamed \/ QaPeek \/ QaPollOnce \/ QaPollRest \/ QaPollEnd

SpecQuery == InitQuery /\ [][NextQuery]_vars

----------------------------------------------------------------------------
(* SqliteTableFactory::create, Sqlite::table_exists, create_table, create_index *)

\* Table names, as characters: t, t' and ''
TableNames == {<<"t">>, <<"t", "'">>, <<"'", "'">>}

\* Keys of the `indexes` option; the last is not a column reference
IndexKeys == {"a", "(a,b)", "(a,b"}

\* Values of the `on_conflict` option; the last is not a conflict policy
OnConflictOptions == {NoneV, Some("upsert:a"), Some("replace(")}

Commands ==
    {[name |-> n, indexes |-> ix, on_conflict |-> oc] :
        n \in TableNames,
        ix \in {{}, {[key |-> "a", unique |-> TRUE]},
                {[key |-> "a", unique |-> FALSE], [key |-> "(a,b)", unique |-> TRUE]},
                {[key |-> "(a,b", unique |-> FALSE]},
                {[key |-> "a", unique |-> TRUE], [key |-> "(a,b", unique |-> FALSE]}},
        oc \in OnConflictOptions}

\* ColumnReference::try_from(key): `a` or `(a,b)`
column_reference_try_from(key) ==
    IF key \in {"a", "(a,b)"} THEN [kind |-> "Ok", columns |-> key]
    ELSE Error("UnableToParseColumnReference")

\* OnConflict::try_from(on_conflict_str)
on_conflict_try_from(str) ==
    IF str = "upsert:a" THEN [kind |-> "Ok", on_conflict |-> str]
    ELSE Error("UnableToParseOnConflict")

\* The steps of create with the pool made before the options are parsed
FactoryStepsPoolFirst ==
    <<"pool", "parse_indexes", "parse_on_conflict", "connect", "table_exists",
      "call", "transaction", "create_table", "create_index", "commit", "await",
      "finish">>

\* The steps of create, in the order of the source
FactorySteps ==
    <<"parse_indexes", "parse_on_conflict", "pool", "connect", "table_exists",
      "call", "transaction", "create_table", "create_index", "commit", "await",
      "finish">>

StepAfter(step) ==
    LET k == CHOOSE k \in 1..Len(FactorySteps) : FactorySteps[k] = step
    IN  FactorySteps[k + 1]

InitFactory ==
    /\ db = [tables |-> {}, indexes |-> {}]
    /\ f_pc = "idle"
    /\ f_cmd \in Commands
    /\ f_calls = 0
    /\ f_indexes = {}
    /\ f_txn = NoneV
    /\ f_io = <<>>
    /\ f_probe = NoResult
    /\ f_result = NoResult
    /\ f_strong = {} /\ f_worker = "idle" /\ f_value = NoResult /\ f_chan = NoneV
    /\ DecodeIdle /\ QueryIdle /\ TableIdle /\ OdbcIdle /\ VectorIdle

\* A call of create on the same command, the database being what the calls
\* before left
FactoryCreate ==
    /\ f_pc \in {"idle", "done"}
    /\ f_calls < MaxCreates
    /\ f_calls' = f_calls + 1
    /\ f_pc' = FactorySteps[1]
    /\ f_indexes' = {}
    /\ f_io' = <<>>
    /\ f_result' = NoResult
    /\ f_strong' = {} /\ f_worker' = "idle" /\ f_value' = NoResult /\ f_chan' = NoneV
    /\ UNCHANGED <<db, f_cmd, f_txn, f_probe, outsideFactory>>

\* A result that ends the call
FactoryReturn(result) ==
    /\ f_result' = result
    /\ f_pc' = "done"

\* The `indexes` option: every key is parsed, the first error is returned
FactoryParseIndexes ==
    /\ f_pc = "parse_indexes"
    /\ LET unparsed_indexes ==
               {[columns |-> column_reference_try_from(e.key), unique |-> e.unique] :
                   e \in f_cmd.indexes}
           errors == {e \in unparsed_indexes : e.columns.kind # "Ok"}
       IN  IF errors # {}
           THEN /\ FactoryReturn(Error("UnableToParseColumnReference"))
                /\ UNCHANGED f_indexes
           ELSE /\ f_indexes' = {[columns |-> e.columns.columns, unique |-> e.unique] :
                                    e \in unparsed_indexes}
                /\ f_pc' = StepAfter(f_pc)
                /\ UNCHANGED f_result
    /\ UNCHANGED <<db, f_cmd, f_calls, f_txn, f_io, f_probe, arcVars, outsideFactory>>

\* The `on_conflict` option
FactoryParseOnConflict ==
    /\ f_pc = "parse_on_conflict"
    /\ IF /\ f_cmd.on_conflict.kind = "Some"
          /\ on_conflict_try_from(f_cmd.on_conflict.v).kind # "Ok"
       THEN FactoryReturn(on_conflict_try_from(f_cmd.on_conflict.v))
       ELSE /\ f_pc' = StepAfter(f_pc)
            /\ UNCHANGED f_result
    /\ UNCHANGED <<db, f_cmd, f_calls, f_indexes, f_txn, f_io, f_probe, arcVars,
                   outsideFactory>>

\* SqliteConnectionPool::new(&db_path, mode).await
FactoryPool ==
    /\ f_pc = "pool"
    /\ f_io' = Append(f_io, "pool")
    /\ \/ /\ f_pc' = StepAfter(f_pc)
          /\ UNCHANGED f_result
       \/ FactoryReturn(Error("DbConnectionPoolError"))
    /\ UNCHANGED <<db, f_cmd, f_calls, f_indexes, f_txn, f_probe, arcVars, outsideFactory>>

\* let sqlite = Arc::new(Sqlite::new(..)), sqlite.connect().await and the
\* downcast to SqliteConnection
FactoryConnect ==
    /\ f_pc = "connect"
    /\ f_io' = Append(f_io, "connect")
    /\ f_strong' = {"sqlite"}
    /\ \/ /\ f_pc' = StepAfter(f_pc)
          /\ UNCHANGED f_result
       \/ FactoryReturn(Error("DbConnectionError"))
    /\ UNCHANGED <<db, f_cmd, f_calls, f_indexes, f_txn, f_probe,
                   f_worker, f_value, f_chan, outsideFactory>>

\* The string literal of the probe: format!("... AND name = '{name}'"), the
\* name put between the quotes as it is
table_exists_sql(name) == <<"'">> \o name \o <<"'">>

\* conn.prepare(&sql), for the literal of the statement: SQLite reads a string
\* literal up to its closing quote, '' standing for one quote.  A literal that
\* is not closed, or that closes before the end of the name, makes the
\* statement a syntax error.  chars are the characters after the opening quote.
RECURSIVE prepare(_, _)
prepare(chars, value) ==
    IF chars = <<>> THEN Error("SqliteFailure")
    ELSE IF chars[1] # "'" THEN prepare(Tail(chars), Append(value, chars[1]))
    ELSE IF Len(chars) >= 2 /\ chars[2] = "'"
         THEN prepare(SubSeq(chars, 3, Len(chars)), Append(value, "'"))
    ELSE IF Len(chars) = 1 THEN [kind |-> "Ok", literal |-> value]
    ELSE Error("SqliteFailure")

\* What can go wrong with a call on the connection besides the statement itself
Faults == {"none", "ConnectionClosed", "prepare", "query_row"}

\* conn.call(move |conn| { conn.prepare(&sql)?.query_row([], |row| row.get(0)) }).await
\* SELECT EXISTS (SELECT 1 FROM sqlite_master WHERE type='table' AND name = <literal>)
catalog_probe(name, catalog, fault) ==
    LET stmt == prepare(Tail(table_exists_sql(name)), <<>>)
    IN  IF fault = "ConnectionClosed" THEN Error("ConnectionClosed")
        ELSE IF fault = "prepare" \/ stmt.kind # "Ok" THEN Error("SqliteFailure")
        ELSE IF fault = "query_row" THEN Error("SqliteFailure")
        ELSE [kind |-> "Ok", exists |-> stmt.literal \in catalog.tables]

\* .unwrap(): a failed probe is a panic
unwrap(result) ==
    IF result.kind = "Ok" THEN [kind |-> "Bool", v |-> result.exists] ELSE Panic

\* .unwrap_or(false)
unwrap_or_false(result) ==
    IF result.kind = "Ok" THEN [kind |-> "Bool", v |-> result.exists]
    ELSE [kind |-> "Bool", v |-> FALSE]

\* sqlite.table_exists(sqlite_conn).await and the branch on it
FactoryTableExists ==
    /\ f_pc = "table_exists"
    /\ f_io' = Append(f_io, "table_exists")
    /\ \E fault \in Faults :
         LET result == catalog_probe(f_cmd.name, db, fault)
             table_exists == unwrap_or_false(result)
         IN  /\ f_probe' = [kind |-> "Some", fault |-> fault, result |-> result,
                            returned |-> table_exists, committed |-> db]
             /\ IF table_exists.kind = "Panic" THEN FactoryReturn(Panic)
                ELSE /\ f_pc' = IF table_exists.v THEN "finish" ELSE StepAfter(f_pc)
                     /\ UNCHANGED f_result
    /\ UNCHANGED <<db, f_cmd, f_calls, f_indexes, f_txn, arcVars, outsideFactory>>

\* The statements already executed stay in the database
keep_changes(committed, txn) == txn

\* Drop of a Transaction that was not committed: DropBehavior::Rollback
rollback(committed, txn) == committed

\* let sqlite_in_conn = Arc::clone(&sqlite) and conn.call(move |conn| ..): the
\* closure that owns the clone is sent to the thread of the connection.  When
\* the thread is gone the message comes back with the error and is dropped,
\* and call returns ConnectionClosed.
FactoryCall ==
    /\ f_pc = "call"
    /\ \/ /\ f_strong' = f_strong \cup {"sqlite_in_conn"}
          /\ f_worker' = "closure"
          /\ f_pc' = StepAfter(f_pc)
          /\ UNCHANGED f_result
       \/ /\ FactoryReturn(Error("UnableToCreateTable"))
          /\ UNCHANGED <<f_strong, f_worker>>
    /\ UNCHANGED <<db, f_cmd, f_calls, f_indexes, f_txn, f_io, f_probe,
                   f_value, f_chan, outsideFactory>>

\* The body of the closure has come to its end with a value: the task still
\* waits for it
ClosureReturns(value) ==
    /\ f_value' = value
    /\ f_worker' = "return"
    /\ f_pc' = "await"
    /\ UNCHANGED <<f_result, f_strong, f_chan>>

\* An error inside the closure: the transaction is dropped
FactoryAbort ==
    /\ db' = rollback(db, f_txn.v)
    /\ f_txn' = NoneV
    /\ ClosureReturns(Error("Rusqlite"))

\* let transaction = conn.transaction()?
FactoryTransaction ==
    /\ f_pc = "transaction" /\ f_worker = "closure"
    /\ f_io' = Append(f_io, "BEGIN")
    /\ \/ /\ f_txn' = Some(db)
          /\ f_pc' = StepAfter(f_pc)
          /\ UNCHANGED <<db, f_result, arcVars>>
       \/ /\ ClosureReturns(Error("Rusqlite"))
          /\ UNCHANGED <<db, f_txn>>
    /\ UNCHANGED <<f_cmd, f_calls, f_indexes, f_probe, outsideFactory>>

\* The step after a statement of the closure: the next index or the commit
AfterStatement(indexes) ==
    IF indexes = {} THEN StepAfter("create_index") ELSE "create_index"

\* sqlite_in_conn.create_table(&transaction, primary_keys)?  The statement can
\* fail; on a table that exists it fails or, written with IF NOT EXISTS, does
\* nothing.
FactoryCreateTableStep ==
    /\ f_pc = "create_table" /\ f_worker = "closure"
    /\ f_io' = Append(f_io, "CREATE TABLE")
    /\ \/ /\ f_txn' = Some([f_txn.v EXCEPT !.tables = @ \cup {f_cmd.name}])
          /\ f_pc' = AfterStatement(f_indexes)
          /\ UNCHANGED <<db, f_result, arcVars>>
       \/ FactoryAbort
    /\ UNCHANGED <<f_cmd, f_calls, f_indexes, f_probe, outsideFactory>>

\* for index in indexes { sqlite_in_conn.create_index(&transaction, ..)? }, the
\* indexes in the order of the HashMap
FactoryCreateIndexStep ==
    /\ f_pc = "create_index" /\ f_worker = "closure"
    /\ f_io' = Append(f_io, "CREATE INDEX")
    /\ \E index \in f_indexes :
         \/ /\ f_txn' = Some([f_txn.v EXCEPT !.indexes =
                                @ \cup {[table |-> f_cmd.name, columns |-> index.columns,
                                         unique |-> index.unique]}])
            /\ f_indexes' = f_indexes \ {index}
            /\ f_pc' = AfterStatement(f_indexes \ {index})
            /\ UNCHANGED <<db, f_result, arcVars>>
         \/ /\ FactoryAbort
            /\ UNCHANGED f_indexes
    /\ UNCHANGED <<f_cmd, f_calls, f_probe, outsideFactory>>

\* transaction.commit()? and Ok(())
FactoryCommit ==
    /\ f_pc = "commit" /\ f_worker = "closure"
    /\ f_io' = Append(f_io, "COMMIT")
    /\ \/ /\ db' = f_txn.v
          /\ f_txn' = NoneV
          /\ ClosureReturns([kind |-> "Ok"])
       \/ FactoryAbort
    /\ UNCHANGED <<f_cmd, f_calls, f_indexes, f_probe, outsideFactory>>

\* A closure whose captured values outlive its call: they go with the message
closure_keeps(holders) == holders

\* The call of the FnOnce closure ends: the values it captured are dropped
closure_returns(holders) == holders \ {"sqlite_in_conn"}

\* let value = function(conn), on the thread of the connection
WorkerReturn ==
    /\ f_worker = "return"
    /\ f_strong' = closure_returns(f_strong)
    /\ f_worker' = "send"
    /\ UNCHANGED <<db, f_pc, f_cmd, f_calls, f_indexes, f_txn, f_io, f_probe, f_result,
                   f_value, f_chan, outsideFactory>>

\* let _ = sender.send(value)
WorkerSend ==
    /\ f_worker = "send"
    /\ f_chan' = Some(f_value)
    /\ f_value' = NoResult
    /\ f_worker' = "exit"
    /\ UNCHANGED <<db, f_pc, f_cmd, f_calls, f_indexes, f_txn, f_io, f_probe, f_result,
                   f_strong, outsideFactory>>

\* The message has been executed and is dropped, with what it still owns
WorkerExit ==
    /\ f_worker = "exit"
    /\ f_strong' = f_strong \ {"sqlite_in_conn"}
    /\ f_worker' = "idle"
    /\ UNCHANGED <<db, f_pc, f_cmd, f_calls, f_indexes, f_txn, f_io, f_probe, f_result,
                   f_value, f_chan, outsideFactory>>

\* The task is suspended in conn.call(..).await
Awaiting == f_pc \in {"transaction", "create_table", "create_index", "commit", "await"}

\* receiver.await, .context(UnableToCreateTableSnafu) and ?
FactoryReceive ==
    /\ Awaiting /\ f_chan.kind = "Some"
    /\ f_chan' = NoneV
    /\ IF f_chan.v.kind = "Ok"
       THEN /\ f_pc' = "finish"
            /\ UNCHANGED f_result
       ELSE FactoryReturn(Error("UnableToCreateTable"))
    /\ UNCHANGED <<db, f_cmd, f_calls, f_indexes, f_txn, f_io, f_probe,
                   f_strong, f_worker, f_value, outsideFactory>>

\* Arc::into_inner(this): the reference is given up, and the value is returned
\* to the holder of the last one
into_inner(holders, this) == IF holders = {this} THEN Some(this) ELSE NoneV

\* Arc::into_inner(sqlite).context(DanglingReferenceToSqliteSnafu)?, then the
\* providers are wired and returned
FactoryFinish ==
    /\ f_pc = "finish"
    /\ f_strong' = f_strong \ {"sqlite"}
    /\ IF into_inner(f_strong, "sqlite").kind = "Some"
       THEN FactoryReturn([kind |-> "Ok"])
       ELSE FactoryReturn(Error("DanglingReferenceToSqlite"))
    /\ UNCHANGED <<db, f_cmd, f_calls, f_indexes, f_txn, f_io, f_probe,
                   f_worker, f_value, f_chan, outsideFactory>>

NextFactory ==
    \/ FactoryCreate
    \/ FactoryParseIndexes
    \/ FactoryParseOnConflict
    \/ FactoryPool
    \/ FactoryConnect
    \/ FactoryTableExists
    \/ FactoryCall
    \/ FactoryTransaction
    \/ FactoryCreateTableStep
    \/ FactoryCreateIndexStep
    \/ FactoryCommit
    \/ WorkerReturn
    \/ WorkerSend
    \/ WorkerExit
    \/ FactoryReceive
    \/ FactoryFinish

SpecFactory == InitFactory /\ [][NextFactory]_vars

----------------------------------------------------------------------------
(* Sqlite::insert_batch, delete_from, delete_all_table_data *)

\* The table has the columns k and v and the primary key (k)
RowKeys == {1, 2}
RowValues == {"x", "y"}
TableRows == [k : RowKeys, v : RowValues]

\* The tables: at most one row for a key
Tables == {rs \in SUBSET TableRows : \A a, b \in rs : a.k = b.k => a = b}

Batches == UNION {[1..n -> TableRows] : n \in 1..MaxBatchRows}

\* The on_conflict of the table writer
OnConflicts == {NoneV, Some([policy |-> "Ignore", keys |-> <<"k">>]),
                Some([policy |-> "Upsert", keys |-> <<"k">>])}

\* Where clauses: a comparison of a column, a clause true or false of every
\* row, and a clause that is not SQL
WhereClauses ==
    {[kind |-> "eq", col |-> "k", val |-> 1], [kind |-> "eq", col |-> "v", val |-> "x"],
     [kind |-> "true"], [kind |-> "false"], [kind |-> "syntax error"]}

Matches(row, where_clause) ==
    CASE where_clause.kind = "eq" ->
            IF where_clause.col = "k" THEN row.k = where_clause.val
            ELSE row.v = where_clause.val
      [] where_clause.kind = "true" -> TRUE
      [] OTHER -> FALSE

InitTable ==
    /\ t_rows \in Tables
    /\ t_committed = t_rows
    /\ t_on_conflict \in OnConflicts
    /\ t_conn = [changes |-> 0, total_changes |-> 0]
    /\ t_ops = 0
    /\ t_last = NoResult
    /\ DecodeIdle /\ QueryIdle /\ FactoryIdle /\ OdbcIdle /\ VectorIdle

\* A statement that changed n rows has completed: sqlite3_changes is n and
\* sqlite3_total_changes has grown by n
Completed(conn, n) ==
    [changes |-> n, total_changes |-> conn.total_changes + n]

\* OnConflict::build_sea_query_on_conflict: Ignore(keys) is ON CONFLICT (keys)
\* DO NOTHING, Upsert(keys) is ON CONFLICT (keys) DO UPDATE SET every other
\* column from excluded
build_sea_query_on_conflict(oc) ==
    [target |-> oc.keys,
     action |-> IF oc.policy = "Ignore" THEN "DO NOTHING" ELSE "DO UPDATE"]

\* The policy is not handed to the statement builder
on_conflict_dropped(on_conflict) == NoneV

\* on_conflict.map(|oc| oc.build_sea_query_on_conflict(&self.schema))
sea_query_on_conflict(on_conflict) ==
    IF on_conflict.kind = "Some" THEN Some(build_sea_query_on_conflict(on_conflict.v))
    ELSE NoneV

\* INSERT INTO t (k, v) VALUES (batch rows) [ON CONFLICT ..], row by row from
\* position n: the rows of the table afterwards and the number of rows changed,
\* or the constraint error that undoes the statement
RECURSIVE execute_insert(_, _, _, _, _)
execute_insert(table, batch, n, clause, changed) ==
    IF n > Len(batch) THEN [kind |-> "Ok", rows |-> table, changed |-> changed]
    ELSE LET new == batch[n]
             existing == {row \in table : row.k = new.k}
         IN  IF existing = {}
             THEN execute_insert(table \cup {new}, batch, n + 1, clause, changed + 1)
             ELSE IF clause.kind = "None" THEN Error("SqliteFailure")
             ELSE IF clause.v.action = "DO NOTHING"
                  THEN execute_insert(table, batch, n + 1, clause, changed)
             ELSE execute_insert((table \ existing) \cup {new}, batch, n + 1, clause,
                                 changed + 1)

\* Sqlite::insert_batch(transaction, batch, on_conflict); an error aborts the
\* transaction
TableInsertBatch ==
    /\ t_ops < MaxOps
    /\ \E batch \in Batches :
         LET res == execute_insert(t_rows, batch, 1, sea_query_on_conflict(t_on_conflict), 0)
         IN  /\ t_last' = [kind |-> "insert_batch", batch |-> batch, before |-> t_rows,
                           result |-> IF res.kind = "Ok" THEN [kind |-> "Ok"]
                                      ELSE Error("UnableToInsertIntoTable")]
             /\ IF res.kind = "Ok"
                THEN /\ t_rows' = res.rows
                     /\ t_conn' = Completed(t_conn, res.changed)
                ELSE /\ t_rows' = t_committed
                     /\ t_conn' = t_conn
    /\ t_ops' = t_ops + 1
    /\ UNCHANGED <<t_committed, t_on_conflict, outsideTable>>

\* Sqlite::delete_all_table_data(transaction)
TableDeleteAll ==
    /\ t_ops < MaxOps
    /\ t_last' = [kind |-> "delete_all_table_data", before |-> t_rows,
                  result |-> [kind |-> "Ok"]]
    /\ t_rows' = {}
    /\ t_conn' = Completed(t_conn, Cardinality(t_rows))
    /\ t_ops' = t_ops + 1
    /\ UNCHANGED <<t_committed, t_on_conflict, outsideTable>>

\* SELECT total_changes()
select_total_changes(conn) == conn.total_changes

\* transaction.query_row("SELECT changes()", [], |row| row.get(0))
select_changes(conn) == conn.changes

\* Sqlite::delete_from(transaction, where_clause)
TableDeleteFrom ==
    /\ t_ops < MaxOps
    /\ \E where_clause \in WhereClauses :
         IF where_clause.kind = "syntax error"
         THEN /\ t_last' = [kind |-> "delete_from", where_clause |-> where_clause,
                            before |-> t_rows, changes_before |-> t_conn.changes,
                            result |-> Error("SqliteFailure")]
              /\ UNCHANGED <<t_rows, t_conn>>
         ELSE LET deleted == {row \in t_rows : Matches(row, where_clause)}
                  conn == Completed(t_conn, Cardinality(deleted))
              IN  /\ t_rows' = t_rows \ deleted
                  /\ t_conn' = conn
                  /\ t_last' = [kind |-> "delete_from", where_clause |-> where_clause,
                                before |-> t_rows, changes_before |-> t_conn.changes,
                                result |-> [kind |-> "Ok", count |-> select_changes(conn)]]
    /\ t_ops' = t_ops + 1
    /\ UNCHANGED <<t_committed, t_on_conflict, outsideTable>>

\* The transaction is committed and another begins
TableCommit ==
    /\ t_rows # t_committed
    /\ t_committed' = t_rows
    /\ UNCHANGED <<t_rows, t_on_conflict, t_conn, t_ops, t_last, outsideTable>>

NextTable == TableInsertBatch \/ TableDeleteAll \/ TableDeleteFrom \/ TableCommit

SpecTable == InitTable /\ [][NextTable]_vars

----------------------------------------------------------------------------
(* odbcpool.rs: ENV, ODBCPool::new, connect, join_push_down *)

Threads == 1..MaxThreads

\* Values of the secret parameter odbc_connection_string
ConnectionStrings == {"DSN=a;PWD=x", "DSN=b;PWD=y"}

InitOdbc ==
    /\ o_faults \in [set_connection_pooling : BOOLEAN, environment_new : BOOLEAN]
    /\ o_once = "incomplete"
    /\ o_env = [set_connection_pooling |-> 0, environment_new |-> 0,
                error_logged |-> FALSE, environment |-> 0]
    /\ o_pc = [t \in Threads |-> "idle"]
    /\ o_pools = <<>>
    /\ o_params \in [Threads -> ConnectionStrings]
    /\ o_join = {}
    /\ DecodeIdle /\ QueryIdle /\ FactoryIdle /\ TableIdle /\ VectorIdle

\* ODBCPool::new(params): the connection string is looked up first
OdbcNew(t) ==
    /\ o_pc[t] = "idle"
    /\ Len(o_pools) < MaxPools
    /\ \E has_connection_string \in BOOLEAN :
         o_pc' = [o_pc EXCEPT ![t] = IF has_connection_string THEN "deref"
                                     ELSE "idle"]
    /\ UNCHANGED <<o_faults, o_once, o_env, o_pools, o_params, o_join, outsideOdbc>>

\* A test of the state that lets a second thread in while the first initializes
initializes_unsynchronized(once) == once \in {"incomplete", "running"}

\* Once::call_once: the thread that finds the Once incomplete runs the closure
initializes(once) == once = "incomplete"

\* pool: &ENV, the dereference of the lazy static.  One thread initializes;
\* a thread that comes while it runs waits; after a panic of the initializer
\* the Once is poisoned and the dereference panics.
OdbcDeref(t) ==
    /\ o_pc[t] = "deref"
    /\ IF initializes(o_once)
       THEN /\ o_once' = "running"
            /\ o_pc' = [o_pc EXCEPT ![t] = "set_connection_pooling"]
       ELSE /\ o_once \in {"complete", "poisoned"}
            /\ o_pc' = [o_pc EXCEPT ![t] = IF o_once = "complete" THEN "build"
                                           ELSE "panicked"]
            /\ UNCHANGED o_once
    /\ UNCHANGED <<o_faults, o_env, o_pools, o_params, o_join, outsideOdbc>>

\* if let Err(e) = Environment::set_connection_pooling(DriverAware) { tracing::error!(..) }
OdbcSetConnectionPooling(t) ==
    /\ o_pc[t] = "set_connection_pooling"
    /\ o_env' = [o_env EXCEPT !.set_connection_pooling = @ + 1,
                              !.error_logged = @ \/ o_faults.set_connection_pooling]
    /\ o_pc' = [o_pc EXCEPT ![t] = "environment_new"]
    /\ UNCHANGED <<o_faults, o_once, o_pools, o_params, o_join, outsideOdbc>>

\* match Environment::new() { Ok(env) => env, Err(e) => panic!(..) }
OdbcEnvironmentNew(t) ==
    /\ o_pc[t] = "environment_new"
    /\ IF o_faults.environment_new
       THEN /\ o_env' = [o_env EXCEPT !.environment_new = @ + 1]
            /\ o_once' = "poisoned"
            /\ o_pc' = [o_pc EXCEPT ![t] = "panicked"]
       ELSE /\ o_env' = [o_env EXCEPT !.environment_new = @ + 1,
                                      !.environment = o_env.environment_new + 1]
            /\ o_once' = "complete"
            /\ o_pc' = [o_pc EXCEPT ![t] = "build"]
    /\ UNCHANGED <<o_faults, o_pools, o_params, o_join, outsideOdbc>>

\* Ok(Self { params, connection_string, pool: &ENV })
OdbcBuild(t) ==
    /\ o_pc[t] = "build"
    /\ o_pools' = Append(o_pools, [thread |-> t, pool |-> o_env.environment,
                                   connection_string |-> o_params[t],
                                   connections |-> 0])
    /\ o_pc' = [o_pc EXCEPT ![t] = "idle"]
    /\ UNCHANGED <<o_faults, o_once, o_env, o_params, o_join, outsideOdbc>>

\* ODBCPool::connect: self.pool.connect_with_connection_string(..)?
OdbcConnect(t) ==
    /\ o_pc[t] = "idle"
    /\ \E k \in 1..Len(o_pools) :
         /\ o_pools[k].connections = 0
         /\ \E ok \in BOOLEAN :
              o_pools' = [o_pools EXCEPT ![k].connections = IF ok THEN 1 ELSE 0]
    /\ UNCHANGED <<o_faults, o_once, o_env, o_pc, o_params, o_join, outsideOdbc>>

\* A join_push_down that names the connection string as the join context
join_push_down_allowed_for(self) ==
    [kind |-> "AllowedFor", context |-> self.connection_string]

\* ODBCPool::join_push_down
join_push_down(self) == [kind |-> "Disallow"]

\* A caller (the federation planner) asks a pool for its join context
OdbcJoinPushDown(t) ==
    /\ o_pc[t] = "idle"
    /\ \E k \in 1..Len(o_pools) :
         o_join' = o_join \cup {join_push_down(o_pools[k])}
    /\ UNCHANGED <<o_faults, o_once, o_env, o_pc, o_pools, o_params, outsideOdbc>>

NextOdbc ==
    \E t \in Threads :
        \/ OdbcNew(t)
        \/ OdbcDeref(t)
        \/ OdbcSetConnectionPooling(t)
        \/ OdbcEnvironmentNew(t)
        \/ OdbcBuild(t)
        \/ OdbcConnect(t)
        \/ OdbcJoinPushDown(t)

SpecOdbc == InitOdbc /\ [][NextOdbc]_vars

----------------------------------------------------------------------------
(* vector_search.rs: VectorSearch::embed *)

Tasks == 1..MaxTasks

\* The models of the EmbeddingModelStore, and a name the store does not hold
StoreModels == {"m1", "m2"}
ModelNames == StoreModels \cup {"m0"}

\* The task that loads a model into the store
Loader == MaxTasks + 1

\* No task is in embed, no lock is held
EmbedAtRest ==
    /\ e_pc = [t \in Tasks |-> "idle"]
    /\ e_call = [t \in Tasks |-> "none"]
    /\ e_result = [t \in Tasks |-> [kind |-> "None"]]
    /\ e_store = [readers |-> {}, writer |-> FALSE, queue |-> <<>>]
    /\ e_models = [m \in StoreModels |-> [holder |-> 0, queue |-> <<>>]]

InitEmbed == EmbedAtRest /\ SearchIdle /\ DecodeIdle /\ QueryIdle
             /\ FactoryIdle /\ TableIdle /\ OdbcIdle

\* embed(&self, input, embedding_model) is called on task t
EmbedCall(t) ==
    /\ e_pc[t] \in {"idle", "done"}
    /\ \E embedding_model \in ModelNames :
         e_call' = [e_call EXCEPT ![t] = embedding_model]
    /\ e_pc' = [e_pc EXCEPT ![t] = "read"]
    /\ e_result' = [e_result EXCEPT ![t] = [kind |-> "None"]]
    /\ UNCHANGED <<e_store, e_models, searchVars, outsideVector>>

\* self.embeddings.read(): the task joins the queue of the store's lock
EmbedRead(t) ==
    /\ e_pc[t] = "read"
    /\ e_store' = [e_store EXCEPT !.queue = Append(@, t)]
    /\ e_pc' = [e_pc EXCEPT ![t] = "read_wait"]
    /\ UNCHANGED <<e_call, e_result, e_models, searchVars, outsideVector>>

\* .await of the read lock: granted at the head of the queue when no writer
\* holds the lock
EmbedReadAcquire(t) ==
    /\ e_pc[t] = "read_wait"
    /\ e_store.queue # <<>> /\ Head(e_store.queue) = t
    /\ ~e_store.writer
    /\ e_store' = [e_store EXCEPT !.readers = @ \cup {t}, !.queue = Tail(@)]
    /\ e_pc' = [e_pc EXCEPT ![t] = "find"]
    /\ UNCHANGED <<e_call, e_result, e_models, searchVars, outsideVector>>

\* .iter().find_map(..).ok_or(EmbeddingModelNotFound)?.write(): a name the
\* store does not hold returns the error and drops the read guard; otherwise
\* the task joins the queue of the model's lock, the read guard still alive
EmbedFind(t) ==
    /\ e_pc[t] = "find"
    /\ IF e_call[t] \in DOMAIN e_models
       THEN /\ e_models' = [e_models EXCEPT ![e_call[t]].queue = Append(@, t)]
            /\ e_pc' = [e_pc EXCEPT ![t] = "write_wait"]
            /\ UNCHANGED <<e_store, e_result>>
       ELSE /\ e_result' = [e_result EXCEPT ![t] =
                               [kind |-> "Err", error |-> "EmbeddingModelNotFound"]]
            /\ e_store' = [e_store EXCEPT !.readers = @ \ {t}]
            /\ e_pc' = [e_pc EXCEPT ![t] = "done"]
            /\ UNCHANGED e_models
    /\ UNCHANGED <<e_call, searchVars, outsideVector>>

\* A lock that lets a second holder in
write_lock_shared(lock) == TRUE

\* RwLock::write is granted when nobody holds the lock
write_lock_free(lock) == lock.holder = 0

\* .await of the model's write lock; the inference starts
EmbedWriteAcquire(t) ==
    /\ e_pc[t] = "write_wait"
    /\ LET lock == e_models[e_call[t]]
       IN  /\ lock.queue # <<>> /\ Head(lock.queue) = t
           /\ write_lock_free(lock)
    /\ e_models' = [e_models EXCEPT ![e_call[t]] =
                       [holder |-> t, queue |-> Tail(@.queue)]]
    /\ e_pc' = [e_pc EXCEPT ![t] = "infer"]
    /\ UNCHANGED <<e_call, e_result, e_store, searchVars, outsideVector>>

\* .embed(EmbeddingInput::String(..)).await ... .first().cloned().ok_or(..):
\* the inference ends, and the temporaries of the expression (the write guard,
\* then the read guard) are dropped
EmbedInfer(t) ==
    /\ e_pc[t] = "infer"
    /\ \E inference \in {"embeddings", "no embeddings", "error"} :
         e_result' = [e_result EXCEPT ![t] =
                         IF inference = "embeddings"
                         THEN [kind |-> "Ok", embedding |-> e_call[t]]
                         ELSE [kind |-> "Err", error |-> "EmbeddingError"]]
    /\ e_models' = [e_models EXCEPT ![e_call[t]].holder = 0]
    /\ e_store' = [e_store EXCEPT !.readers = @ \ {t}]
    /\ e_pc' = [e_pc EXCEPT ![t] = "done"]
    /\ UNCHANGED <<e_call, searchVars, outsideVector>>

\* The store's write lock is asked for (a model is being loaded)
StoreWrite ==
    /\ ~e_store.writer
    /\ \A k \in 1..Len(e_store.queue) : e_store.queue[k] # Loader
    /\ e_store' = [e_store EXCEPT !.queue = Append(@, Loader)]
    /\ UNCHANGED <<e_pc, e_call, e_result, e_models, searchVars, outsideVector>>

\* and granted at the head of the queue once every reader has left
StoreWriteAcquire ==
    /\ e_store.queue # <<>> /\ Head(e_store.queue) = Loader
    /\ e_store.readers = {}
    /\ e_store' = [e_store EXCEPT !.writer = TRUE, !.queue = Tail(@)]
    /\ UNCHANGED <<e_pc, e_call, e_result, e_models, searchVars, outsideVector>>

StoreWriteRelease ==
    /\ e_store.writer
    /\ e_store' = [e_store EXCEPT !.writer = FALSE]
    /\ UNCHANGED <<e_pc, e_call, e_result, e_models, searchVars, outsideVector>>

EmbedStep(t) ==
    \/ EmbedRead(t)
    \/ EmbedReadAcquire(t)
    \/ EmbedFind(t)
    \/ EmbedWriteAcquire(t)
    \/ EmbedInfer(t)

NextEmbed ==
    \/ \E t \in Tasks : EmbedCall(t) \/ EmbedStep(t)
    \/ StoreWrite
    \/ StoreWriteAcquire
    \/ StoreWriteRelease

SpecEmbed == InitEmbed /\ [][NextEmbed]_vars

\* A task that can run is run, and whoever holds a lock releases it: the
\* inference and the load of a model terminate
SpecEmbedLive ==
    /\ SpecEmbed
    /\ \A t \in Tasks : WF_vars(EmbedStep(t))
    /\ WF_vars(StoreWriteAcquire)
    /\ WF_vars(StoreWriteRelease)

----------------------------------------------------------------------------
(* vector_search.rs: VectorSearch::search *)

\* The task that runs the search
SearchTask == CHOOSE t \in Tasks : \A u \in Tasks : t <= u

\* Table references a search can name
VsTableNames == {"a", "b"}

\* The schema of every registered table
VsFields == <<"id", "body", "title">>

\* Embedding columns of an EmbeddingTable, each with its model
VsEmbeddings ==
    [none    |-> <<>>,
     body    |-> <<[name |-> "body", model |-> "m1"]>>,
     other   |-> <<[name |-> "title", model |-> "m2"]>>,
     unknown |-> <<[name |-> "body", model |-> "m0"]>>,
     two     |-> <<[name |-> "body", model |-> "m1"], [name |-> "title", model |-> "m2"]>>,
     same    |-> <<[name |-> "body", model |-> "m1"], [name |-> "title", model |-> "m1"]>>]

PrimaryKey(columns) == [kind |-> "PrimaryKey", columns |-> columns]
Unique(columns) == [kind |-> "Unique", columns |-> columns]

TableProvider(kind, federated, columns, constraints) ==
    [kind |-> kind, federated |-> federated, columns |-> columns,
     constraints |-> constraints]

\* What DataFusion can hold under a name: nothing, a table without embeddings,
\* an EmbeddingTable, or an AcceleratedTable over either
TableProviders ==
    { [kind |-> "None"],
      TableProvider("Other", "", <<>>, <<PrimaryKey(<<0>>)>>),
      TableProvider("AcceleratedTable", "Other", <<>>, <<>>),
      TableProvider("EmbeddingTable", "", VsEmbeddings.none, <<>>),
      TableProvider("EmbeddingTable", "", VsEmbeddings.body, <<>>),
      TableProvider("EmbeddingTable", "", VsEmbeddings.body, <<PrimaryKey(<<0>>)>>),
      TableProvider("EmbeddingTable", "", VsEmbeddings.body, <<PrimaryKey(<<>>)>>),
      TableProvider("EmbeddingTable", "", VsEmbeddings.body, <<PrimaryKey(<<5>>)>>),
      TableProvider("EmbeddingTable", "", VsEmbeddings.other,
                    <<Unique(<<1>>), PrimaryKey(<<2, 0>>)>>),
      TableProvider("AcceleratedTable", "EmbeddingTable", VsEmbeddings.body,
                    <<Unique(<<0>>)>>),
      TableProvider("EmbeddingTable", "", VsEmbeddings.unknown, <<>>),
      TableProvider("EmbeddingTable", "", VsEmbeddings.two, <<PrimaryKey(<<0>>)>>),
      TableProvider("AcceleratedTable", "EmbeddingTable", VsEmbeddings.same, <<>>) }

\* explicit_primary_keys as compute_primary_keys can build it
ExplicitPrimaryKeys ==
    { <<>>,
      [t \in {"a"} |-> <<>>],
      [t \in VsTableNames |-> IF t = "a" THEN <<"title">> ELSE <<"title", "id">>] }

VsRequests == UNION {[1..n -> VsTableNames] : n \in 1..MaxTables}

InitSearch ==
    /\ vs_pc = "call"
    /\ vs_df \in [VsTableNames -> TableProviders]
    /\ vs_explicit \in ExplicitPrimaryKeys
    /\ vs_tables \in VsRequests
    /\ vs_to_run = <<>> /\ vs_todo = <<>> /\ vs_embedded = <<>>
    /\ vs_embeds = [m \in ModelNames |-> 0]
    /\ vs_per_table = <<>> /\ vs_pks = <<>> /\ vs_sql = <<>>
    /\ vs_result = [kind |-> "None"]
    /\ EmbedAtRest
    /\ DecodeIdle /\ QueryIdle /\ FactoryIdle /\ TableIdle /\ OdbcIdle

\* HashMap::insert
Insert(map, key, value) ==
    [k \in DOMAIN map \cup {key} |-> IF k = key THEN value ELSE map[k]]

VsErr(error, data_source) ==
    [kind |-> "Err", error |-> error, data_source |-> data_source]

\* self.df.get_table(tbl).await
get_table(df, tbl) ==
    IF df[tbl].kind = "None" THEN [kind |-> "None"] ELSE df[tbl]

\* The EmbeddingTable a provider is, or holds as its federated table
get_embedding_table(tbl) ==
    IF tbl.kind = "EmbeddingTable"
       \/ (tbl.kind = "AcceleratedTable" /\ tbl.federated = "EmbeddingTable")
    THEN [kind |-> "Some", columns |-> tbl.columns]
    ELSE [kind |-> "None"]

\* EmbeddingTable::get_embedding_columns and get_embedding_models_used
get_embedding_columns(e) == [k \in 1..Len(e.columns) |-> e.columns[k].name]
get_embedding_models_used(e) == [k \in 1..Len(e.columns) |-> e.columns[k].model]

RECURSIVE find_relevant_embedding_models(_, _, _)
find_relevant_embedding_models(df, data_sources, embeddings_to_run) ==
    IF data_sources = <<>> THEN [kind |-> "Ok", value |-> embeddings_to_run]
    ELSE LET data_source == Head(data_sources)
             table == get_table(df, data_source)
             embedding_table == get_embedding_table(table)
         IN  IF table.kind = "None"
             THEN VsErr("DataSourceNotFound", data_source)
             ELSE IF embedding_table.kind = "None"
             THEN VsErr("NoEmbeddingColumns", data_source)
             ELSE find_relevant_embedding_models(df, Tail(data_sources),
                      Insert(embeddings_to_run, data_source,
                             get_embedding_models_used(embedding_table)))

\* An order in which a HashMap with these keys can be iterated
IterationOrders(keys) ==
    {order \in [1..Cardinality(keys) -> keys] :
        \A j, k \in DOMAIN order : j # k => order[j] # order[k]}

\* embeddings_to_run.values().flatten(), the maps iterated in this order
RECURSIVE values_flatten(_, _)
values_flatten(map, order) ==
    IF order = <<>> THEN <<>>
    ELSE map[Head(order)] \o values_flatten(map, Tail(order))

\* search up to the loop of calculate_embeddings_per_table: the limit, then
\* find_relevant_embedding_models
SearchFindModels ==
    /\ vs_pc = "call"
    /\ \E limit \in {"TopN", "Threshold"} :
         LET found == find_relevant_embedding_models(vs_df, vs_tables, <<>>)
         IN  IF limit = "Threshold"
             THEN /\ vs_result' = [kind |-> "Panic", error |-> "unimplemented"]
                  /\ vs_pc' = "done"
                  /\ UNCHANGED <<vs_to_run, vs_todo>>
             ELSE IF found.kind = "Err"
             THEN /\ vs_result' = found
                  /\ vs_pc' = "done"
                  /\ UNCHANGED <<vs_to_run, vs_todo>>
             ELSE /\ vs_to_run' = found.value
                  /\ \E order \in IterationOrders(DOMAIN found.value) :
                       vs_todo' = values_flatten(found.value, order)
                  /\ vs_pc' = "embed_loop"
                  /\ UNCHANGED vs_result
    /\ UNCHANGED <<vs_df, vs_explicit, vs_tables, vs_embedded, vs_embeds,
                   vs_per_table, vs_pks, vs_sql, embedVars, outsideVector>>

\* for model in .. { self.embed(&query, model) .. }: the call
SearchEmbed ==
    /\ vs_pc = "embed_loop"
    /\ vs_todo # <<>>
    /\ LET model == Head(vs_todo)
       IN  /\ e_call' = [e_call EXCEPT ![SearchTask] = model]
           /\ e_pc' = [e_pc EXCEPT ![SearchTask] = "read"]
           /\ vs_embeds' = [vs_embeds EXCEPT ![model] = @ + 1]
    /\ vs_todo' = Tail(vs_todo)
    /\ vs_pc' = "embedding"
    /\ UNCHANGED <<e_result, e_store, e_models, vs_df, vs_explicit, vs_tables,
                   vs_to_run, vs_embedded, vs_per_table, vs_pks, vs_sql,
                   vs_result, outsideVector>>

\* .await.boxed().context(EmbeddingSnafu)?; embedded_inputs.insert(model, result)
SearchEmbedded ==
    /\ vs_pc = "embedding"
    /\ e_pc[SearchTask] = "done"
    /\ LET result == e_result[SearchTask]
       IN  IF result.kind = "Err"
           THEN /\ vs_result' = VsErr("EmbeddingError", e_call[SearchTask])
                /\ vs_pc' = "done"
                /\ UNCHANGED vs_embedded
           ELSE /\ vs_embedded' = Insert(vs_embedded, e_call[SearchTask],
                                         result.embedding)
                /\ vs_pc' = "embed_loop"
                /\ UNCHANGED vs_result
    /\ e_pc' = [e_pc EXCEPT ![SearchTask] = "idle"]
    /\ UNCHANGED <<e_call, e_result, e_store, e_models, vs_df, vs_explicit,
                   vs_tables, vs_to_run, vs_todo, vs_embeds, vs_per_table,
                   vs_pks, vs_sql, outsideVector>>

\* model_names.iter().filter_map(|m| embedded_inputs.get(m).cloned()).collect()
RECURSIVE filter_map_get(_, _)
filter_map_get(model_names, embedded_inputs) ==
    IF model_names = <<>> THEN <<>>
    ELSE (IF Head(model_names) \in DOMAIN embedded_inputs
          THEN <<embedded_inputs[Head(model_names)]>> ELSE <<>>)
         \o filter_map_get(Tail(model_names), embedded_inputs)

\* The first PrimaryKey constraint's columns, or no columns
RECURSIVE constraint_idx(_)
constraint_idx(constraints) ==
    IF constraints = <<>> THEN <<>>
    ELSE IF Head(constraints).kind = "PrimaryKey" THEN Head(constraints).columns
    ELSE constraint_idx(Tail(constraints))

\* get_primary_keys: the names of the schema projected on the constraint
get_primary_keys(df, table) ==
    LET tbl_ref == get_table(df, table)
        idx == constraint_idx(tbl_ref.constraints)
    IN  IF tbl_ref.kind = "None" THEN VsErr("DataSourceNotFound", table)
        ELSE IF \E k \in DOMAIN idx : idx[k] >= Len(VsFields)
        THEN VsErr("DataFusionError", table)
        ELSE [kind |-> "Ok", value |-> [k \in DOMAIN idx |-> VsFields[idx[k] + 1]]]

\* A resolution that asks the explicit map first
RECURSIVE explicit_keys_first(_, _, _, _)
explicit_keys_first(df, explicit_primary_keys, tables, tbl_to_pks) ==
    IF tables = <<>> THEN [kind |-> "Ok", value |-> tbl_to_pks]
    ELSE LET tbl == Head(tables)
             pks == get_primary_keys(df, tbl)
         IN  IF pks.kind = "Err" THEN pks
             ELSE explicit_keys_first(df, explicit_primary_keys, Tail(tables),
                      IF tbl \in DOMAIN explicit_primary_keys
                      THEN Insert(tbl_to_pks, tbl, explicit_primary_keys[tbl])
                      ELSE IF pks.value # <<>>
                      THEN Insert(tbl_to_pks, tbl, pks.value)
                      ELSE tbl_to_pks)

RECURSIVE get_primary_keys_with_overrides(_, _, _, _)
get_primary_keys_with_overrides(df, explicit_primary_keys, tables, tbl_to_pks) ==
    IF tables = <<>> THEN [kind |-> "Ok", value |-> tbl_to_pks]
    ELSE LET tbl == Head(tables)
             pks == get_primary_keys(df, tbl)
         IN  IF pks.kind = "Err" THEN pks
             ELSE get_primary_keys_with_overrides(df, explicit_primary_keys,
                      Tail(tables),
                      IF pks.value # <<>>
                      THEN Insert(tbl_to_pks, tbl, pks.value)
                      ELSE IF tbl \in DOMAIN explicit_primary_keys
                      THEN Insert(tbl_to_pks, tbl, explicit_primary_keys[tbl])
                      ELSE tbl_to_pks)

\* The end of calculate_embeddings_per_table, then
\* get_primary_keys_with_overrides(&self.explicit_primary_keys, tables).await?
SearchPrimaryKeys ==
    /\ vs_pc = "embed_loop"
    /\ vs_todo = <<>>
    /\ LET table_primary_keys ==
               get_primary_keys_with_overrides(vs_df, vs_explicit, vs_tables, <<>>)
       IN  /\ vs_per_table' = [t \in DOMAIN vs_to_run |->
                                   filter_map_get(vs_to_run[t], vs_embedded)]
           /\ IF table_primary_keys.kind = "Err"
              THEN /\ vs_result' = table_primary_keys
                   /\ vs_pc' = "done"
                   /\ UNCHANGED vs_pks
              ELSE /\ vs_pks' = table_primary_keys.value
                   /\ vs_pc' = "tables"
                   /\ UNCHANGED vs_result
    /\ UNCHANGED <<vs_df, vs_explicit, vs_tables, vs_to_run, vs_todo, vs_embedded,
                   vs_embeds, vs_sql, embedVars, outsideVector>>

\* A search that takes the first embedding column whatever their number
any_number_of_embeddings(search_vectors) == FALSE

\* if search_vectors.len() != 1 { return Err(IncorrectNumberOfEmbeddingColumns) }
incorrect_number_of_embeddings(search_vectors) == Len(search_vectors) # 1

\* table_primary_keys.get(&tbl).cloned().unwrap_or(vec![]), then
\* select_keys.push(embedding_column)
select_keys(table_primary_keys, tbl, embedding_column) ==
    Append(IF tbl \in DOMAIN table_primary_keys THEN table_primary_keys[tbl]
           ELSE <<>>,
           embedding_column)

\* One iteration of for (tbl, search_vectors) in per_table_embeddings
SearchTable ==
    /\ vs_pc = "tables"
    /\ \E tbl \in DOMAIN vs_per_table :
         LET search_vectors == vs_per_table[tbl]
             table_provider == get_table(vs_df, tbl)
             embedding_table == get_embedding_table(table_provider)
             embedding_columns ==
                 IF embedding_table.kind = "None" THEN <<>>
                 ELSE get_embedding_columns(embedding_table)
             failure ==
                 IF table_provider.kind = "None"
                 THEN VsErr("DataSourceNotFound", tbl)
                 ELSE IF embedding_columns = <<>>
                 THEN VsErr("NoEmbeddingColumns", tbl)
                 ELSE IF incorrect_number_of_embeddings(search_vectors)
                 THEN [kind |-> "Err",
                       error |-> "IncorrectNumberOfEmbeddingColumns",
                       data_source |-> tbl,
                       num_embeddings |-> Len(search_vectors)]
                 ELSE [kind |-> "None"]
         IN  /\ vs_per_table' = [t \in DOMAIN vs_per_table \ {tbl} |-> vs_per_table[t]]
             /\ IF failure.kind = "Err"
                THEN /\ vs_result' = failure
                     /\ vs_pc' = "done"
                     /\ UNCHANGED vs_sql
                ELSE \E sql_ok \in BOOLEAN :
                     /\ vs_sql' = Append(vs_sql,
                            [tbl |-> tbl,
                             select_keys |-> select_keys(vs_pks, tbl,
                                                         Head(embedding_columns)),
                             embedding_column |-> Head(embedding_columns),
                             embedding |-> Head(search_vectors),
                             ok |-> sql_ok])
                     /\ IF sql_ok
                        THEN UNCHANGED <<vs_result, vs_pc>>
                        ELSE /\ vs_result' = VsErr("DataFusionError", tbl)
                             /\ vs_pc' = "done"
    /\ UNCHANGED <<vs_df, vs_explicit, vs_tables, vs_to_run, vs_todo, vs_embedded,
                   vs_embeds, vs_pks, embedVars, outsideVector>>

\* Ok(response)
SearchReturn ==
    /\ vs_pc = "tables"
    /\ DOMAIN vs_per_table = {}
    /\ vs_result' = [kind |-> "Ok",
                     retrieved |-> {vs_sql[k].tbl : k \in DOMAIN vs_sql}]
    /\ vs_pc' = "done"
    /\ UNCHANGED <<vs_df, vs_explicit, vs_tables, vs_to_run, vs_todo, vs_embedded,
                   vs_embeds, vs_per_table, vs_pks, vs_sql, embedVars,
                   outsideVector>>

NextSearch ==
    \/ SearchFindModels
    \/ SearchEmbed
    \/ EmbedStep(SearchTask)
    \/ SearchEmbedded
    \/ SearchPrimaryKeys
    \/ SearchTable
    \/ SearchReturn

SpecSearch == InitSearch /\ [][NextSearch]_vars

----------------------------------------------------------------------------
(* Properties *)

\* The cell of row j and column k has been read
HasCell(j, k) == j \in 1..Len(rows) /\ k \in 1..Len(rows[j])

\* C1: a call of rows_to_arrow that succeeds returns a batch whose row count is
\* the number of input rows and whose every column (and every child of a struct
\* column) has exactly that many entries, nulls included.
BuilderAlignment ==
    (pc = "done" /\ op = "rows_to_arrow" /\ outcome.kind = "Ok") =>
        /\ outcome.batch.num_rows = nrows
        /\ Len(rows) = nrows
        /\ \A k \in 1..Len(outcome.batch.columns) :
             LET c == outcome.batch.columns[k]
             IN  /\ Len(c.vals) = nrows
                 /\ \A idx \in 1..Len(c.kids) : Len(c.kids[idx]) = nrows

\* C1 witness: two rows over a timestamp and an integer column, the timestamp
\* null in the first row and after the epoch in the second, decoded to a batch
BuilderAlignmentWitness ==
    /\ pc = "done" /\ op = "rows_to_arrow" /\ outcome.kind = "Ok"
    /\ cols = <<"TIMESTAMP", "INT4">> /\ nrows = 2
    /\ rows[1][1].null /\ ~rows[2][1].null
    /\ Len(outcome.batch.columns) = 2

\* C2: a decimal encoded as binary NUMERIC words decodes to the same value with
\* the same sign and with scale = dscale; the words of test_big_decimal_from_sql
\* decode to 9345129329031293.0932 and its negative, at scale 5.
NumericRoundTrip ==
    num_pc = "decoded" =>
        /\ num_d # NoDecimal =>
             /\ num_out.kind = "Ok"
             /\ num_out.inner = [neg |-> num_d.neg, mag |-> num_d.mag]
             /\ num_out.scale = num_d.scale
        /\ num_d \in TestDecimals =>
             RawU16(num_raw) = IF num_d.neg THEN NegativeU16 ELSE PositiveU16
        /\ num_raw = ToBytes(PositiveU16) =>
             /\ num_out.kind = "Ok"
             /\ num_out.inner = [neg |-> FALSE, mag |-> TestUnscaled]
             /\ num_out.scale = 5
        /\ num_raw = ToBytes(NegativeU16) =>
             /\ num_out.kind = "Ok"
             /\ num_out.inner = [neg |-> TRUE, mag |-> TestUnscaled]
             /\ num_out.scale = 5

\* C2 witness: -0.000100 (negative, weight -1, its trailing zero digit not sent)
\* has been encoded and decoded
NumericRoundTripWitness ==
    /\ num_pc = "decoded"
    /\ num_d = [neg |-> TRUE, mag |-> <<1, 0, 0>>, scale |-> 6]
    /\ RawU16(num_raw) = <<1, 65535, 16384, 6, 1>>
    /\ num_out.kind = "Ok"

\* C3: every NUMERIC byte sequence whose sign word is neither 0x0000 nor 0x4000
\* makes from_sql return FailedToParseBigDecimalFromPostgres, whatever its digit
\* count, weight and dscale.
NumericSignRejected ==
    (num_pc = "decoded" /\ Len(RawU16(num_raw)) >= 3
        /\ RawU16(num_raw)[3] \notin {SignPlus, SignMinus})
    => num_out = ParseError

\* The decoded value of the NUMERIC cell of row j and column k
Decoded(j, k) == from_sql(rows[j][k].v)

\* A non-null NUMERIC cell that has been read and decoded
NumericCell(j, k) ==
    /\ HasCell(j, k) /\ cols[k] = "NUMERIC"
    /\ ~rows[j][k].null
    /\ Decoded(j, k).kind = "Ok"

\* C4: the integer stored for a non-null NUMERIC cell is
\* unscaled * 10^(column_scale - dscale), column_scale being the scale of the
\* column's Decimal128 type.
DecimalStoredAtColumnScale ==
    \A k \in 1..Len(builders) : \A j \in 1..Len(rows) :
        (NumericCell(j, k) /\ builders[k].kind = "Some"
            /\ j <= Len(builders[k].v.vals))
        => LET stored == builders[k].v.vals[j].v
               column_scale == builders[k].v.dt.s
               d == Decoded(j, k)
           IN  IF column_scale >= d.scale
               THEN stored = BigMulPow10(d.inner, column_scale - d.scale)
               ELSE d.inner = BigMulPow10(stored, d.scale - column_scale)

\* The first row of column k that is not null, 0 when there is none
FirstNonNull(k) ==
    LET js == {j \in 1..Len(rows) : HasCell(j, k) /\ ~rows[j][k].null}
    IN  IF js = {} THEN 0 ELSE CHOOSE j \in js : \A h \in js : j <= h

\* C5: the type of a NUMERIC column is Decimal128(38, s), s being the dscale of
\* the first non-null value of the column, also after leading null rows.
NumericScaleFromFirstNonNull ==
    (pc = "done" /\ op = "rows_to_arrow" /\ outcome.kind = "Ok") =>
        \A k \in 1..Len(cols) :
            (cols[k] = "NUMERIC" /\ FirstNonNull(k) # 0) =>
                LET s == Decoded(FirstNonNull(k), k).scale
                IN  /\ arrow_fields[k] = Some(Decimal128(38, s))
                    /\ builders[k].v.dt = Decimal128(38, s)

\* C6: a decoded NUMERIC whose unscaled integer does not fit in i128, or whose
\* power of ten 10^dscale does not fit, makes rows_to_arrow fail with
\* FailedToConvertBigDecimalToI128.
DecimalOutOfRangeFails ==
    \A j \in 1..Len(rows) : \A k \in 1..Len(cols) :
        (NumericCell(j, k)
            /\ (~FitsI128(Decoded(j, k).inner) \/ Decoded(j, k).scale > MaxPow10I128))
        => outcome.kind = "FailedToConvertBigDecimalToI128"

Supported(postgres_type) == map_column_type_to_data_type(postgres_type).kind # "Panic"

\* C7: with a column of a vendor type that has no mapping, the operation does
\* not panic: the column is dropped from the schema, the others are kept and
\* the batch has as many rows as the input.
UnsupportedTypeDropped ==
    (pc = "done" /\ (\E k \in 1..Len(cols) : ~Supported(cols[k]))
        /\ (op = "rows_to_arrow" => nrows > 0))
    => /\ outcome.kind = "Ok"
       /\ op = "rows_to_arrow" =>
            /\ outcome.batch.num_rows = nrows
            /\ Len(outcome.batch.schema)
                 = Cardinality({k \in 1..Len(cols) : Supported(cols[k])})
       /\ op = "columns_to_schema" =>
            Len(outcome.schema) <= Cardinality({k \in 1..Len(cols) : Supported(cols[k])})

\* The string without its trailing ASCII spaces
RECURSIVE TrimTrailingSpaces(_)
TrimTrailingSpaces(str) ==
    IF str = <<>> THEN <<>>
    ELSE IF str[Len(str)] = 32 THEN TrimTrailingSpaces(SubSeq(str, 1, Len(str) - 1))
    ELSE str

\* C8: the string appended for a non-null BPCHAR cell is the input without its
\* trailing ASCII spaces and nothing else removed.
BpcharTrimsOnlySpaces ==
    \A k \in 1..Len(builders) : \A j \in 1..Len(rows) :
        (HasCell(j, k) /\ cols[k] = "BPCHAR" /\ ~rows[j][k].null
            /\ builders[k].kind = "Some" /\ j <= Len(builders[k].v.vals))
        => builders[k].v.vals[j].v = TrimTrailingSpaces(rows[j][k].v)

\* epoch * 1000 + fraction / 1_000_000 over the integers
Millis(row) ==
    BigAdd(BigMulPow10(row.v.epoch, 3), BigFromInt(TruncDiv(row.v.fraction, 1000000)))

\* C9: for every non-null row, whatever its epoch (i64) and fraction (i32), the
\* cast outputs epoch * 1000 + fraction / 1_000_000, computed without overflow
\* or wrap-around.
SfTimestampMillis ==
    /\ sf_result.kind # "Panic"
    /\ \A k \in 1..Len(sf_builder) :
         ~sf_column.entries[k].null => sf_builder[k] = Cell(Millis(sf_column.entries[k]))

\* C10: the array the cast returns is as long as the input struct array, entry
\* k is null exactly when input row k is null, and a non-null entry is the
\* timestamp of the row at its position.
SfNullPassthrough ==
    (sf_pc = "done" /\ sf_result.kind = "Ok") =>
        /\ Len(sf_result.array) = Len(sf_column.entries)
        /\ \A k \in 1..Len(sf_column.entries) :
             /\ sf_result.array[k].null <=> sf_column.entries[k].null
             /\ ~sf_column.entries[k].null =>
                  sf_result.array[k].v \in {Millis(sf_column.entries[k]), Wrapped}

\* C10 witness: a null row followed by (1714647301, 739000000) has been cast to
\* a null followed by 1714647301739
SfNullPassthroughWitness ==
    /\ sf_pc = "done" /\ sf_result.kind = "Ok"
    /\ Len(sf_column.entries) = 2
    /\ sf_column.entries[1].null
    /\ sf_result.array =
         <<NullCell, Cell(Big(FALSE, <<1,7,1,4,6,4,7,3,0,1,7,3,9>>))>>

\* The column is not a struct of at least two children, a 64-bit integer first
\* and a 32-bit integer second
SfMalformed(column) ==
    ~(/\ column.is_struct
      /\ Len(column.children) >= 2
      /\ column.children[1] = "Int64"
      /\ column.children[2] = "Int32")

\* C11: on a timestamp_ntz column that is not a struct, has fewer than two
\* children, a first child that is not a 64-bit integer or a second that is not
\* a 32-bit integer, the cast returns UnableToCastSnowflakeTimestamp, and
\* snowflake_schema_cast returns that error and no batch.
SfUnexpectedShapeFails ==
    /\ (sf_pc = "done" /\ SfMalformed(sf_column)) =>
           sf_result = Error("UnableToCastSnowflakeTimestamp")
    /\ (sc_pc = "done" /\ SfMalformed(sf_column)
            /\ \E k \in 1..Len(sc_fields) : IsTimestampNtz(sc_fields[k])) =>
           sc_result = Error("UnableToCastSnowflakeTimestamp")
    /\ (SfMalformed(sf_column)
            /\ \E k \in 1..Len(sc_fields) : IsTimestampNtz(sc_fields[k])) =>
           sc_result.kind # "Ok"

\* C11 witness: the struct of test_..._invalid_input (an epoch child and no
\* fraction) as the second column of a batch: the first column had been kept
\* when the cast failed, and the schema cast returned the error
SfUnexpectedShapeFailsWitness ==
    /\ sc_pc = "done"
    /\ sf_column.is_struct /\ sf_column.children = <<"Int64">>
    /\ Len(sc_fields) = 2 /\ IsTimestampNtz(sc_fields[2])
    /\ Len(sc_out.columns) = 1
    /\ sf_result = Error("UnableToCastSnowflakeTimestamp")
    /\ sc_result = Error("UnableToCastSnowflakeTimestamp")

\* C12: when the first upstream batch transforms successfully, the stream that
\* query_arrow returns yields the upstream items in the order of the server,
\* each passed through snowflake_schema_cast and each once (the peeked first
\* batch neither lost nor repeated), all of them when the stream ends, and its
\* schema is the schema of the first transformed batch.
QueryPeekAndReplay ==
    (qa_pc \in {"returned", "ended"} /\ Len(qa_server) > 0) =>
        /\ qa_result.kind = "Ok"
        /\ Transformed(qa_server[1]).kind = "Ok"
        /\ qa_schema = Transformed(qa_server[1]).batch.schema
        /\ Len(qa_delivered) <= Len(qa_server)
        /\ \A k \in 1..Len(qa_delivered) :
             /\ qa_delivered[k].kind = "Ok" <=> Transformed(qa_server[k]).kind = "Ok"
             /\ qa_delivered[k].kind = "Ok" =>
                  /\ qa_delivered[k].batch.id = k
                  /\ qa_delivered[k].batch.cast
                  /\ qa_delivered[k] = snowflake_schema_cast(qa_server[k].batch)
        /\ qa_pc = "ended" => Len(qa_delivered) = Len(qa_server)

\* C12 witness: three batches, the first with a timestamp_ntz column, have all
\* been delivered, retyped, and the stream has ended
QueryPeekAndReplayWitness ==
    /\ qa_pc = "ended"
    /\ Len(qa_server) = 3
    /\ \A k \in 1..3 : qa_server[k].kind = "Ok"
    /\ IsTimestampNtz(qa_server[1].batch.schema[1])
    /\ Len(qa_delivered) = 3
    /\ \A k \in 1..3 : qa_delivered[k].kind = "Ok" /\ qa_delivered[k].batch.id = k
    /\ qa_schema[1].data_type = TimestampMillisecond

\* The current call of create has made its table_exists call
Probed == \E k \in 1..Len(f_io) : f_io[k] = "table_exists"

\* C13: a table_exists call made before the transaction of create_table
\* commits returns false, one made after it returns true, and the call leaves
\* the database as it was.  (Stated for the calls during which neither the
\* connection nor SQLite fails.)
TableExistsFalseThenTrue ==
    (Probed /\ f_probe.fault = "none") =>
        /\ f_probe.returned =
             [kind |-> "Bool", v |-> f_cmd.name \in f_probe.committed.tables]
        /\ f_io[Len(f_io)] = "table_exists" => db = f_probe.committed

\* C14: a table_exists call whose catalog probe fails (the statement is not
\* prepared, the query fails, the connection is closed) returns false: no
\* error and no panic reaches the caller.
TableExistsFalseOnError ==
    (Probed /\ f_probe.result.kind # "Ok") =>
        /\ f_probe.returned = [kind |-> "Bool", v |-> FALSE]
        /\ f_result.kind # "Panic"
        /\ f_result.kind \notin {"ConnectionClosed", "SqliteFailure"}

\* C14 witness: the connection was closed when the table was probed after its
\* creation had been committed: the call returned false and create went on
TableExistsFalseOnErrorWitness ==
    /\ Probed /\ f_probe.fault = "ConnectionClosed"
    /\ f_cmd.name \in f_probe.committed.tables
    /\ f_probe.returned = [kind |-> "Bool", v |-> FALSE]
    /\ f_pc = "call"

\* The indexes of the command, as they are in the catalog once created
CommandIndexes ==
    {[table |-> f_cmd.name, columns |-> e.key, unique |-> e.unique] : e \in f_cmd.indexes}

\* Number of statements of one kind in the current call
Statements(kind) == Cardinality({k \in 1..Len(f_io) : f_io[k] = kind})

\* C15: in a call of create that finds the table absent, create_table and the
\* create_index of every entry of `indexes` run in one transaction: nothing of
\* it is in the database before the commit; if a statement (or the commit)
\* fails the call returns the error and neither the table nor an index of it
\* exists afterwards; if all succeed the table and all the indexes exist after
\* the one commit.
AtomicProvisioning ==
    (Probed /\ f_cmd.name \notin f_probe.committed.tables) =>
        /\ f_pc \notin {"await", "finish", "done"} => db = f_probe.committed
        /\ f_txn.kind = "Some" => f_pc \in {"create_table", "create_index", "commit"}
        /\ (f_pc = "done" /\ f_result.kind # "Ok") =>
             /\ f_result = Error("UnableToCreateTable")
             /\ f_cmd.name \notin db.tables
             /\ \A ix \in db.indexes : ix.table # f_cmd.name
        /\ (f_pc = "done" /\ f_result.kind = "Ok") =>
             /\ f_cmd.name \in db.tables
             /\ CommandIndexes \subseteq db.indexes
             /\ Statements("BEGIN") = 1 /\ Statements("COMMIT") = 1
             /\ Statements("CREATE TABLE") = 1
             /\ Statements("CREATE INDEX") = Cardinality(f_cmd.indexes)

\* C15 witness: with two indexes, the second create_index failed after the
\* table and the first index had been created in the transaction, and nothing
\* of it is in the database
AtomicProvisioningWitness ==
    /\ Probed /\ f_pc = "done"
    /\ f_result = Error("UnableToCreateTable")
    /\ Cardinality(f_cmd.indexes) = 2
    /\ Statements("CREATE INDEX") = 2
    /\ db = [tables |-> {}, indexes |-> {}]

\* The command has an index key that is no column reference, or an on_conflict
\* that is no conflict policy
MalformedOptions ==
    \/ \E e \in f_cmd.indexes : e.key \notin {"a", "(a,b)"}
    \/ f_cmd.on_conflict.kind = "Some" /\ f_cmd.on_conflict.v # "upsert:a"

\* C16: a call of create on a command with a malformed index key or a
\* malformed on_conflict returns the parse error, and in that call no pool is
\* made, no connection opened and no statement executed.
ParseBeforeIo ==
    (f_calls > 0 /\ MalformedOptions) =>
        /\ f_io = <<>>
        /\ f_pc \in {"parse_indexes", "parse_on_conflict", "done"}
        /\ f_pc = "done" =>
             f_result.kind \in {"UnableToParseColumnReference", "UnableToParseOnConflict"}

\* C16 witness: the indexes were well formed and on_conflict was not: create
\* returned UnableToParseOnConflict
ParseBeforeIoWitness ==
    /\ f_pc = "done" /\ f_calls = 1
    /\ f_cmd.indexes = {[key |-> "a", unique |-> TRUE]}
    /\ f_cmd.on_conflict = Some("replace(")
    /\ f_result = Error("UnableToParseOnConflict")
    /\ f_io = <<>>

\* C17: delete_from removes exactly the rows that satisfy the where clause,
\* leaves the others as they were and returns the number of rows it removed,
\* 0 when none matches, whatever the statements before it changed.
DeleteFromCountsRemoved ==
    (t_last.kind = "delete_from" /\ t_last.where_clause.kind # "syntax error") =>
        LET matching == {row \in t_last.before : Matches(row, t_last.where_clause)}
        IN  /\ t_last.result.kind = "Ok"
            /\ t_last.result.count = Cardinality(matching)
            /\ t_rows = t_last.before \ matching

\* C17 witness: a statement had changed two rows, then delete_from matched no
\* row of the two in the table and returned 0
DeleteFromCountsRemovedWitness ==
    /\ t_last.kind = "delete_from"
    /\ t_last.changes_before = 2
    /\ Cardinality(t_last.before) = 2
    /\ t_last.where_clause = [kind |-> "false"]
    /\ t_last.result = [kind |-> "Ok", count |-> 0]
    /\ t_rows = t_last.before

\* Keys of a set of rows, and of the rows of a batch
KeysOf(table) == {row.k : row \in table}
BatchKeys(batch) == {batch[n].k : n \in 1..Len(batch)}

\* The first and the last row of the batch with the key
FirstWith(batch, key) ==
    batch[CHOOSE n \in 1..Len(batch) :
            batch[n].k = key /\ \A m \in 1..(n - 1) : batch[m].k # key]
LastWith(batch, key) ==
    batch[CHOOSE n \in 1..Len(batch) :
            batch[n].k = key /\ \A m \in (n + 1)..Len(batch) : batch[m].k # key]

\* C18: for a batch with a row whose key is the key of an existing row,
\* insert_batch leaves the existing row as it is under Ignore(keys), gives it
\* the values of the new row under Upsert(keys), and without a policy fails, the
\* transaction then holding none of the batch's rows; under Ignore and Upsert
\* the rows of the batch whose key is new are inserted.
InsertBatchConflictPolicy ==
    t_last.kind = "insert_batch" =>
        LET before == t_last.before
            batch == t_last.batch
            collides == KeysOf(before) \cap BatchKeys(batch) # {}
        IN  /\ (t_on_conflict.kind = "None" /\ collides) =>
                 /\ t_last.result = Error("UnableToInsertIntoTable")
                 /\ t_rows = t_committed
            /\ (t_on_conflict.kind = "Some" /\ t_on_conflict.v.policy = "Ignore") =>
                 /\ t_last.result.kind = "Ok"
                 /\ before \subseteq t_rows
                 /\ KeysOf(t_rows) = KeysOf(before) \cup BatchKeys(batch)
                 /\ \A key \in BatchKeys(batch) \ KeysOf(before) :
                      FirstWith(batch, key) \in t_rows
            /\ (t_on_conflict.kind = "Some" /\ t_on_conflict.v.policy = "Upsert") =>
                 /\ t_last.result.kind = "Ok"
                 /\ KeysOf(t_rows) = KeysOf(before) \cup BatchKeys(batch)
                 /\ \A key \in BatchKeys(batch) : LastWith(batch, key) \in t_rows
                 /\ \A row \in before : row.k \notin BatchKeys(batch) => row \in t_rows
            /\ \A a, b \in t_rows : a.k = b.k => a = b

\* C18 witness: under Upsert, the batch (1, y), (2, x) met the table {(1, x)}:
\* the row of key 1 took the value y and the row of key 2 was inserted
InsertBatchConflictPolicyWitness ==
    /\ t_last.kind = "insert_batch"
    /\ t_on_conflict = Some([policy |-> "Upsert", keys |-> <<"k">>])
    /\ t_last.before = {[k |-> 1, v |-> "x"]}
    /\ t_last.batch = <<[k |-> 1, v |-> "y"], [k |-> 2, v |-> "x"]>>
    /\ t_rows = {[k |-> 1, v |-> "y"], [k |-> 2, v |-> "x"]}

\* C19: whatever the threads do, driver-aware pooling is set once and the ODBC
\* environment is created once: never a second time, and once as soon as the
\* initialization of ENV has run; every ODBCPool refers to that environment.
OdbcEnvironmentOnce ==
    /\ o_env.set_connection_pooling <= 1
    /\ o_env.environment_new <= 1
    /\ o_once \in {"complete", "poisoned"} =>
         o_env.set_connection_pooling = 1 /\ o_env.environment_new = 1
    /\ o_pools # <<>> => o_once = "complete"
    /\ \A k \in 1..Len(o_pools) :
         o_pools[k].pool = o_env.environment /\ o_pools[k].pool = 1

\* C19 witness: two threads have each constructed a pool, the first pool has
\* handed out a connection, and the initialization has run once
OdbcEnvironmentOnceWitness ==
    /\ Len(o_pools) = 2
    /\ o_pools[1].thread # o_pools[2].thread
    /\ o_pools[1].connections = 1
    /\ o_env.set_connection_pooling = 1 /\ o_env.environment_new = 1

\* C20: when setting driver-aware pooling fails or the environment cannot be
\* created, no ODBCPool is constructed and no connection is handed out: the
\* failure is not logged and passed over.
OdbcInitFailureAborts ==
    (o_env.error_logged \/ o_once = "poisoned") =>
        /\ o_pools = <<>>
        /\ \A t \in Threads : o_pc[t] # "build"

\* C21: every value join_push_down has returned is Disallow, whatever the
\* connection string of the pool, and no returned value holds a connection
\* string.
OdbcJoinPushDownDisallow ==
    \A j \in o_join :
        /\ j.kind = "Disallow"
        /\ \A f \in DOMAIN j : j[f] \notin ConnectionStrings

\* join_push_down has been asked of pools with two different connection strings
OdbcJoinPushDownDisallowWitness ==
    /\ o_join # {}
    /\ \E k, l \in 1..Len(o_pools) :
         o_pools[k].connection_string # o_pools[l].connection_string

\* Two tasks run the inference of one model at the same moment
InferTogether ==
    \E t, u \in Tasks :
        /\ t # u
        /\ e_pc[t] = "infer" /\ e_pc[u] = "infer"
        /\ e_call[t] = e_call[u]

\* A task holds the read lock of the store whenever it waits for or holds the
\* write lock of a model
ReadBeforeWrite ==
    \A t \in Tasks :
        /\ e_pc[t] \in {"write_wait", "infer"} => t \in e_store.readers
        /\ \A m \in DOMAIN e_models :
             e_models[m].holder = t => t \in e_store.readers /\ e_call[t] = m

\* C23: the inference of a model is never run by two calls at once, a call
\* holds the store's read lock before it asks for the model's write lock, and
\* every call of embed returns.
EmbedSerializedPerModel ==
    /\ [](~InferTogether /\ ReadBeforeWrite)
    /\ \A t \in Tasks : (e_pc[t] = "read") ~> (e_pc[t] = "done")

\* One call runs the inference of a model while another call that names the
\* same model waits for it, and the loader waits for the store
EmbedSerializedPerModelWitness ==
    \E t, u \in Tasks :
        /\ e_pc[t] = "infer" /\ e_pc[u] = "write_wait"
        /\ e_call[t] = e_call[u]
        /\ e_store.queue = <<Loader>>

\* The locks task t holds
LocksHeld(t) ==
    (IF t \in e_store.readers THEN {"store"} ELSE {})
    \cup {m \in DOMAIN e_models : e_models[m].holder = t}

\* C24: at the await on the model's write lock and at the await on the
\* inference a task holds at most one lock.
EmbedOneLockAcrossAwait ==
    \A t \in Tasks :
        e_pc[t] \in {"write_wait", "infer"} => Cardinality(LocksHeld(t)) <= 1

\* C22: within one search no model embeds the query more than once, also
\* when several requested tables, of one embedding column each, use the model.
SearchEmbedsOncePerModel ==
    (\A t \in DOMAIN vs_to_run : Len(vs_to_run[t]) = 1) =>
        \A m \in DOMAIN vs_embeds : vs_embeds[m] <= 1

\* The embedding columns the catalog gives a table
EmbeddingColumnsOf(t) ==
    IF vs_df[t].kind \in {"EmbeddingTable", "AcceleratedTable"}
       /\ (vs_df[t].kind = "AcceleratedTable" => vs_df[t].federated = "EmbeddingTable")
    THEN vs_df[t].columns
    ELSE <<>>

ConstraintKeys(t) ==
    LET primary == {k \in DOMAIN vs_df[t].constraints :
                        vs_df[t].constraints[k].kind = "PrimaryKey"}
    IN  IF primary = {} THEN <<>>
        ELSE LET columns == vs_df[t].constraints[CHOOSE k \in primary : TRUE].columns
             IN  [k \in DOMAIN columns |-> VsFields[columns[k] + 1]]

\* C26: every SELECT lists the columns of the PrimaryKey constraint when there
\* are any, otherwise the table's entry of the explicit map when there is one,
\* otherwise nothing, and then the embedding column, which is the last.
SearchSelectsPrimaryKeys ==
    \A k \in DOMAIN vs_sql :
        LET q == vs_sql[k]
            keys == IF ConstraintKeys(q.tbl) # <<>> THEN ConstraintKeys(q.tbl)
                    ELSE IF q.tbl \in DOMAIN vs_explicit THEN vs_explicit[q.tbl]
                    ELSE <<>>
        IN  /\ q.select_keys = keys \o <<q.embedding_column>>
            /\ q.select_keys[Len(q.select_keys)] = EmbeddingColumnsOf(q.tbl)[1].name

\* One SELECT took its keys from the constraint although the explicit map
\* names others, another took them from the explicit map
SearchSelectsPrimaryKeysWitness ==
    \E j, k \in DOMAIN vs_sql :
        /\ ConstraintKeys(vs_sql[j].tbl) # <<>>
        /\ vs_sql[j].tbl \in DOMAIN vs_explicit
        /\ vs_explicit[vs_sql[j].tbl] # ConstraintKeys(vs_sql[j].tbl)
        /\ ConstraintKeys(vs_sql[k].tbl) = <<>>
        /\ vs_sql[k].tbl \in DOMAIN vs_explicit
        /\ Len(vs_sql[k].select_keys) = 2

\* A non-null TIMESTAMP cell that has been read and lies before the epoch
BeforeEpoch(j, k) ==
    /\ HasCell(j, k) /\ cols[k] = "TIMESTAMP"
    /\ ~rows[j][k].null /\ rows[j][k].v.secs < 0

\* The entry of the builder that the TIMESTAMP cell of row j has written: the
\* cells before the epoch have written none
TimestampEntry(j, k) == Cardinality({h \in 1..j : ~BeforeEpoch(h, k)})

\* The microseconds from the epoch to a time at or after it
MicrosSinceEpoch(t) == BigAdd(BigMulPow10(BigFromInt(t.secs), 6), BigFromInt(t.micros))

Utf8Of(k) == builders[k].v.vals

\* C27: a non-null TIMESTAMP cell at or after the epoch is stored as the whole
\* milliseconds from the epoch, the n with n * 1000 <= microseconds < (n + 1) *
\* 1000, in a Timestamp column, 2023-05-02 10:30:00-04:00 as 1683037800000, and
\* the overflow error is returned when n is above i64::MAX; a non-null UUID
\* cell is stored in a Utf8 column as 36 characters, lowercase hexadecimal
\* digits of its bytes with hyphens after the 8th, 12th, 16th and 20th digit.
TimestampAndUuidDecoding ==
    /\ \A k \in 1..Len(builders) : \A j \in 1..Len(rows) :
        (HasCell(j, k) /\ cols[k] = "TIMESTAMP" /\ ~rows[j][k].null
            /\ rows[j][k].v.secs >= 0 /\ builders[k].kind = "Some")
        => LET t == rows[j][k].v
               micros == MicrosSinceEpoch(t)
           IN  IF outcome.kind = "FailedToConvertU128toI64" /\ j = r /\ k = i
               THEN ~FitsI64(as_millis(duration_since_epoch(t)))
               ELSE /\ builders[k].v.dt = DT("Timestamp")
                    /\ TimestampEntry(j, k) <= Len(builders[k].v.vals)
                    /\ LET n == builders[k].v.vals[TimestampEntry(j, k)].v
                       IN  /\ ~n.neg /\ FitsI64(n)
                           /\ CmpMag(BigMulPow10(n, 3).mag, micros.mag) <= 0
                           /\ CmpMag(micros.mag,
                                     BigAdd(BigMulPow10(n, 3), BigFromInt(1000)).mag) < 0
                           /\ t = TimestampTz(2023, 5, 2, 10, 30, 0, -4) =>
                                  n.mag = <<1, 6, 8, 3, 0, 3, 7, 8, 0, 0, 0, 0, 0>>
    /\ \A k \in 1..Len(builders) : \A j \in 1..Len(rows) :
        (HasCell(j, k) /\ cols[k] = "UUID" /\ ~rows[j][k].null
            /\ builders[k].kind = "Some")
        => LET str == Utf8Of(k)[j].v
               hyphens(n) == Cardinality({h \in {8, 12, 16, 20} : h < n})
               digits == [n \in 1..32 |-> str[n + hyphens(n)]]
               value(c) == CHOOSE d \in 0..15 : HexDigits[d + 1] = c
           IN  /\ builders[k].v.dt = DT("Utf8")
               /\ Len(str) = 36
               /\ \A n \in {9, 14, 19, 24} : str[n] = "-"
               /\ \A n \in 1..32 : \E d \in 0..15 : HexDigits[d + 1] = digits[n]
               /\ \A b \in 1..16 :
                    value(digits[2 * b - 1]) * 16 + value(digits[2 * b]) = rows[j][k].v[b]
               /\ rows[j][k].v[1] = 94 =>
                    str = <<"5","e","a","5","a","3","a","c","-","0","7","a","0","-",
                            "4","d","4","d","-","b","2","0","1","-",
                            "f","a","f","f","6","8","d","8","3","5","6","c">>

\* The row of test_postgres_types has been decoded to a batch
TimestampAndUuidDecodingWitness ==
    /\ pc = "done" /\ op = "rows_to_arrow" /\ outcome.kind = "Ok"
    /\ cols = <<"UUID", "TIMESTAMP">> /\ nrows = 1
    /\ rows[1][1] = Cell(<<94, 165, 163, 172, 7, 160, 77, 77,
                           178, 1, 250, 255, 104, 216, 53, 108>>)
    /\ rows[1][2] = Cell(TimestampTz(2023, 5, 2, 10, 30, 0, -4))
    /\ outcome.batch.columns[2].vals[1].v.mag = <<1, 6, 8, 3, 0, 3, 7, 8, 0, 0, 0, 0, 0>>


\* The step decodes a non-null TIMESTAMP cell that lies before the epoch
DecodesBeforeEpoch ==
    /\ pc = "cells" /\ cols[i] = "TIMESTAMP"
    /\ Len(rows'[r]) = i
    /\ ~rows'[r][i].null /\ rows'[r][i].v.secs < 0

\* C28: decoding a non-null TIMESTAMP cell that lies before the epoch appends
\* neither a value nor a null to the builder of its column, leaves every other
\* builder and the schema as they are, reports no error, and goes on with the
\* cell that follows (or with the batch after the last cell).
BeforeEpochOmitted ==
    [][DecodesBeforeEpoch =>
         /\ builders' = builders
         /\ arrow_fields' = arrow_fields
         /\ outcome' = outcome /\ outcome = NoResult
         /\ pc' = IF i = Len(cols) /\ r = nrows THEN "finish" ELSE "cells"
         /\ <<r', i'>> = IF i < Len(cols) THEN <<r, i + 1>>
                         ELSE IF r < nrows THEN <<r + 1, 1>>
                         ELSE <<r, i>>]_vars

\* The INT4 cell after an omitted TIMESTAMP cell has been decoded: the
\* Timestamp builder holds no entry and the Int32 builder holds one
BeforeEpochOmittedWitness ==
    /\ cols = <<"TIMESTAMP", "INT4">> /\ Len(rows) >= 1 /\ Len(rows[1]) = 2
    /\ BeforeEpoch(1, 1)
    /\ Len(builders[1].v.vals) = 0
    /\ Len(builders[2].v.vals) = 1


\* The rows whose cell of column k has been decoded
CellsDecoded(k) == Cardinality({j \in 1..Len(rows) : HasCell(j, k)})

\* C29: once the COMPOSITE cell of a row has been decoded, null or not, the
\* struct builder and each of its child builders hold one entry for every row
\* decoded so far, a null composite being a null struct entry with a null in
\* each child, and the batch of a table of composite cells is built without
\* failure.
CompositeAligned ==
    \A k \in 1..Len(builders) :
        (cols[k] = "COMPOSITE" /\ builders[k].kind = "Some"
            /\ outcome.kind \notin {"NoBuilderForIndex", "FailedToDowncastBuilder"})
        => LET b == builders[k].v
           IN  /\ Len(b.vals) = CellsDecoded(k)
               /\ \A child \in 1..Len(b.kids) : Len(b.kids[child]) = CellsDecoded(k)
               /\ \A j \in 1..Len(rows) :
                    (HasCell(j, k) /\ rows[j][k].null)
                    => /\ b.vals[j] = NullCell
                       /\ \A child \in 1..Len(b.kids) : b.kids[child][j] = NullCell
               /\ (pc = "done" /\ op = "rows_to_arrow" /\ cols = <<"COMPOSITE">>)
                    => outcome.kind = "Ok"


\* C30: whenever create is at the unwrap of the shared handle, after a probe
\* that found the table or after the result of the provisioning closure was
\* received, `sqlite` is the only reference left, and no call of create returns
\* DanglingReferenceToSqlite, however the steps of the connection's thread and
\* of the task interleave.
ExclusiveOwnership ==
    /\ f_pc = "finish" => f_strong = {"sqlite"}
    /\ f_result # Error("DanglingReferenceToSqlite")

\* The closure has committed and create has returned the provider while the
\* thread of the connection has not yet dropped the message it executed
ExclusiveOwnershipWitness ==
    /\ f_pc = "done" /\ f_result.kind = "Ok"
    /\ Statements("COMMIT") = 1
    /\ f_worker = "exit"

====
